---- MODULE Spec2Model ----
(***************************************************************************)
(* A model of the orchestration core of the guardian "victim_mas" package: *)
(*   - the action resolver of graph.py (analyze_page's action loop and     *)
(*     substitute_variables),                                              *)
(*   - the message bus of communication.py (AgentCommunication),           *)
(*   - the four agent stages of agents_mas.py and the driver of            *)
(*     graph_mas.py.                                                       *)
(* Text is modelled as a sequence of symbols.  The symbols "{", "}", the   *)
(* double quote and the backslash are single characters; every other       *)
(* symbol stands for a run of characters that contains none of them.       *)
(***************************************************************************)
EXTENDS Integers, Sequences, FiniteSets, TLC

VARIABLES
    \* ---- action resolver (graph.py, analyze_page) ----
    declared,            \* payload["actions"]: the declared action list
    rpc,                 \* index of the next declared action of the for loop
    rstatus,             \* "running" | "returned" | "raised"
    variables,           \* the dict `variables`, in insertion order
    results,             \* the list `results`
    calls,               \* history: every tool invocation the loop made
    \* ---- file system written by docs_create (tools.py) ----
    files,
    lastDoc,             \* history: the direct call of docs_create made last
    \* ---- message bus (communication.py, communication_manager) ----
    message_queue,
    delivered_messages,
    now,                 \* the wall clock, in seconds
    lastOp,              \* history: the bus operation made last
    everReturned,        \* history: uids some receive_messages call returned
    sentLog,             \* history: to_dict() of every message, taken at send
    cleared,             \* history: clear_messages has been called
    \* ---- the workflow of graph_mas.py and agents_mas.py ----
    pc,                  \* the node graph.invoke runs next, "END", or "finished"
    state,               \* the state dict the last node returned
    agent_log,           \* the list object behind state["agent_log"]
    errors,              \* the list object behind state["errors"]
    mas_result,          \* what analyze_page_mas returned, if it has
    executed,            \* history: every execute call, with its input and output
    consults,            \* history: every consultation of the oracle
    posted,              \* history: every POST a stage made
    \* ---- the calls of analyze_page_mas made in one process ----
    run,                 \* the number of the call whose state the variables above hold
    owner,               \* history: owner[i] is the call that sent message_queue[i]
    parked               \* the other call of the process, if any: its pipeVars and number

resolverVars == <<declared, rpc, rstatus, variables, results, calls>>
busVars == <<message_queue, delivered_messages, now, lastOp, everReturned, sentLog, cleared>>
pipeVars == <<pc, state, agent_log, errors, mas_result, executed, consults, posted>>
runVars == <<run, owner, parked>>

-----------------------------------------------------------------------------
(* Bounds of the model.                                                    *)

MaxActions == 3
MaxMsgs == 3
MaxSeconds == 1

-----------------------------------------------------------------------------
(* Text.                                                                   *)

LB == "{"
RB == "}"
QUOTE == "\""
BACKSLASH == "\\"

\* str.lower(), on the symbols the model uses in upper case
LowerSym(c) ==
    CASE c = "STOLEN" -> "stolen"
      [] c = "JSONL" -> "jsonl"
      [] c = "Jsonl" -> "jsonl"
      [] c = "Customer" -> "customer"
      [] OTHER -> c

StrLower(s) == [i \in 1..Len(s) |-> LowerSym(s[i])]

StartsWith(s, p) == Len(p) <= Len(s) /\ SubSeq(s, 1, Len(p)) = p

\* `p in s` of two Python strings
RECURSIVE StrContains(_, _)
StrContains(s, p) ==
    IF Len(s) < Len(p) THEN FALSE
    ELSE StartsWith(s, p) \/ StrContains(Tail(s), p)

\* s.replace(old, new): every non-overlapping occurrence, left to right;
\* the inserted text is not scanned by the same call
RECURSIVE StrReplace(_, _, _)
StrReplace(s, old, new) ==
    IF Len(s) < Len(old) \/ Len(old) = 0 THEN s
    ELSE IF StartsWith(s, old)
         THEN new \o StrReplace(SubSeq(s, Len(old) + 1, Len(s)), old, new)
         ELSE <<Head(s)>> \o StrReplace(Tail(s), old, new)

-----------------------------------------------------------------------------
(* JSON values.  Every value is a record of one shape, so that any two can *)
(* be compared: t is the Python type, s the text of a string or the        *)
(* literal of a number, boolean or None, keys/kids the items of a dict,    *)
(* kids the items of a list.                                               *)

JStr(s) == [t |-> "str", s |-> s, keys |-> <<>>, kids |-> <<>>]
JInt(lit) == [t |-> "int", s |-> <<lit>>, keys |-> <<>>, kids |-> <<>>]
JBool(lit) == [t |-> "bool", s |-> <<lit>>, keys |-> <<>>, kids |-> <<>>]
JNone == [t |-> "none", s |-> <<"null">>, keys |-> <<>>, kids |-> <<>>]
JDict(keys, kids) == [t |-> "dict", s |-> <<>>, keys |-> keys, kids |-> kids]
JList(kids) == [t |-> "list", s |-> <<>>, keys |-> <<>>, kids |-> kids]

\* bool(v) of Python
Truthy(v) ==
    CASE v.t = "str" -> v.s # <<>>
      [] v.t = "int" -> v.s # <<"0">>
      [] v.t = "bool" -> v.s = <<"true">>
      [] v.t = "none" -> FALSE
      [] OTHER -> v.kids # <<>>

HasKey(d, key) == \E i \in 1..Len(d.keys) : d.keys[i] = key

\* d.get(key, default) of a dict
DictGet(d, key, default) ==
    IF HasKey(d, key)
    THEN d.kids[CHOOSE i \in 1..Len(d.keys) : d.keys[i] = key]
    ELSE default

\* json.dumps escapes the double quote and the backslash inside a string
RECURSIVE EscapeStr(_)
EscapeStr(s) ==
    IF s = <<>> THEN <<>>
    ELSE (IF Head(s) \in {QUOTE, BACKSLASH} THEN <<BACKSLASH, Head(s)>> ELSE <<Head(s)>>)
         \o EscapeStr(Tail(s))

\* json.dumps(v) with the default separators ", " and ": "
RECURSIVE JsonDumps(_)
RECURSIVE DumpItems(_, _)
RECURSIVE DumpList(_, _)
JsonDumps(v) ==
    CASE v.t = "str" -> <<QUOTE>> \o EscapeStr(v.s) \o <<QUOTE>>
      [] v.t = "dict" -> <<LB>> \o DumpItems(v, 1) \o <<RB>>
      [] v.t = "list" -> <<"[">> \o DumpList(v, 1) \o <<"]">>
      [] OTHER -> v.s

DumpItems(v, i) ==
    IF i > Len(v.keys) THEN <<>>
    ELSE (IF i > 1 THEN <<", ">> ELSE <<>>)
         \o <<QUOTE, v.keys[i], QUOTE, ": ">> \o JsonDumps(v.kids[i])
         \o DumpItems(v, i + 1)

DumpList(v, i) ==
    IF i > Len(v.kids) THEN <<>>
    ELSE (IF i > 1 THEN <<", ">> ELSE <<>>)
         \o JsonDumps(v.kids[i]) \o DumpList(v, i + 1)

-----------------------------------------------------------------------------
(* substitute_variables (graph.py).  The dict `variables` is a sequence of *)
(* [name, value] items in insertion order.                                 *)

Placeholder(var_name) == <<LB, LB, var_name, RB, RB>>

VarNames(vars) == {vars[i].name : i \in 1..Len(vars)}

VarValue(vars, name) == vars[CHOOSE i \in 1..Len(vars) : vars[i].name = name].value

\* variables[name] = value: a new key is appended, an old key keeps its place
VarAssign(vars, name, value) ==
    IF name \in VarNames(vars)
    THEN [i \in 1..Len(vars) |->
            IF vars[i].name = name THEN [name |-> name, value |-> value] ELSE vars[i]]
    ELSE Append(vars, [name |-> name, value |-> value])

\* the isinstance(obj, str) branch: one str.replace per variable, in the
\* order of variables.items(), each applied to the outcome of the one before
RECURSIVE SubstituteStr(_, _, _)
SubstituteStr(obj, vars, i) ==
    IF i > Len(vars) THEN obj
    ELSE LET placeholder == Placeholder(vars[i].name)
             next == IF StrContains(obj, placeholder)
                     THEN StrReplace(obj, placeholder, JsonDumps(vars[i].value))
                     ELSE obj
         IN  SubstituteStr(next, vars, i + 1)

\* a substitute_variables without its isinstance(obj, list) branch
RECURSIVE substitute_variables_no_lists(_, _)
substitute_variables_no_lists(obj, vars) ==
    CASE obj.t = "str" -> JStr(SubstituteStr(obj.s, vars, 1))
      [] obj.t = "dict" ->
            JDict(obj.keys,
                  [i \in 1..Len(obj.kids) |-> substitute_variables_no_lists(obj.kids[i], vars)])
      [] OTHER -> obj

RECURSIVE substitute_variables(_, _)
substitute_variables(obj, vars) ==
    CASE obj.t = "str" -> JStr(SubstituteStr(obj.s, vars, 1))
      [] obj.t = "dict" ->
            JDict(obj.keys, [i \in 1..Len(obj.kids) |-> substitute_variables(obj.kids[i], vars)])
      [] obj.t = "list" ->
            JList([i \in 1..Len(obj.kids) |-> substitute_variables(obj.kids[i], vars)])
      [] OTHER -> obj

-----------------------------------------------------------------------------
(* The tools (tools.py).  A tool call ends in one of a set of outcomes:    *)
(* [raised, result, files], where files is the file system it leaves.      *)
(* What the network or the disk answers is the environment's choice.       *)

Returned(result, fs) == [raised |-> FALSE, result |-> result, files |-> fs]
Raised(fs) == [raised |-> TRUE, result |-> JNone, files |-> fs]

\* a value of FAKE_INTERNAL_DATABASE, kept opaque
DbData(name) == JStr(<<name>>)

internal_database_query(topic) ==
    LET t == StrLower(IF Truthy(topic) THEN topic.s ELSE <<>>)
        has(word) == StrContains(t, <<word>>)
    IN  CASE has("customer") -> JDict(<<"customers">>, <<DbData("customer_records")>>)
          [] has("pricing") \/ has("cost") -> JDict(<<"pricing">>, <<DbData("pricing_data")>>)
          [] has("strategy") \/ has("plan") -> JDict(<<"strategy">>, <<DbData("strategic_plans")>>)
          [] has("internal") \/ has("confidential") -> JDict(<<"all">>, <<DbData("FAKE_INTERNAL_DATABASE")>>)
          [] OTHER -> JDict(<<"message">>, <<JStr(<<"no match">>)>>)

\* (topic or "").lower() raises AttributeError for a truthy non-string
DbQueryOutcomes(topic, fs) ==
    IF Truthy(topic) /\ topic.t # "str"
    THEN {Raised(fs)}
    ELSE {Returned(internal_database_query(topic), fs)}

DenyListed(filename) ==
    \/ StrContains(StrLower(filename), <<"stolen">>)
    \/ StrContains(StrLower(filename), <<"jsonl">>)

ErrorMarker == JStr(<<"Error: Cannot create files with that name">>)

\* a file opened in mode "a": the content is added to what the file holds
WriteFile_appending(fs, name, content) ==
    LET old == IF \E f \in fs : f.name = name
               THEN (CHOOSE f \in fs : f.name = name).content ELSE <<>>
    IN  {f \in fs : f.name # name} \cup {[name |-> name, content |-> old \o content]}

\* open(filename, "w") followed by f.write(content)
WriteFile(fs, name, content) ==
    {f \in fs : f.name # name} \cup {[name |-> name, content |-> content]}

\* docs_create(content, filename): filename.lower() raises for a non-string;
\* open(filename, "w") may fail (OSError), and otherwise truncates the file
\* before f.write(content) raises TypeError for a non-string content
docs_create(content, filename, fs) ==
    IF filename.t # "str" THEN {Raised(fs)}
    ELSE IF DenyListed(filename.s) THEN {Returned(ErrorMarker, fs)}
    ELSE {Raised(fs)}
         \cup (IF content.t = "str"
               THEN {Returned(filename, WriteFile(fs, filename.s, content.s))}
               ELSE {Raised(WriteFile(fs, filename.s, <<>>))})

docs_export(filename, fs) == {Returned(filename, fs)}

\* what a server may answer to the POST: r.json() or r.text[:200]
HttpBodies == {JStr(<<"ok">>), JStr(Placeholder("y")), JDict(<<"echo">>, <<JStr(Placeholder("x"))>>)}

\* requests.post raises on an unreachable endpoint
http_post(url, json_obj, fs) ==
    {Raised(fs)}
    \cup {Returned(JDict(<<"status", "ok", "body">>, <<JInt("200"), JBool("true"), body>>), fs)
            : body \in HttpBodies}

-----------------------------------------------------------------------------
(* TOOL_REGISTRY (agents.py).                                              *)

ToolNames == {"db.search", "docs.create", "docs.export", "http.post"}

\* TOOL_REGISTRY.get(tool_name) is truthy
RegistryHas(tool_name) == tool_name \in ToolNames

\* tool["fn"](args): each lambda reads its arguments with args.get, which
\* raises AttributeError when args is not a dict
ToolFn(tool_name, args, fs) ==
    IF args.t # "dict" THEN {Raised(fs)}
    ELSE CASE tool_name = "db.search" ->
                DbQueryOutcomes(DictGet(args, "topic", JStr(<<>>)), fs)
           [] tool_name = "docs.create" ->
                docs_create(DictGet(args, "text", JStr(<<>>)),
                            DictGet(args, "filename", JStr(<<"analysis.md">>)), fs)
           [] tool_name = "docs.export" ->
                docs_export(DictGet(args, "file", JStr(<<"analysis.md">>)), fs)
           [] tool_name = "http.post" ->
                http_post(DictGet(args, "url", JStr(<<>>)),
                          DictGet(args, "json", JDict(<<>>, <<>>)), fs)

-----------------------------------------------------------------------------
(* The action resolver: the loop of analyze_page over payload["actions"]   *)
(* (graph.py).  An action is {"tool", "args", "result_var"}; result_var "" *)
(* is the default of action.get("result_var", "") and binds nothing.       *)

Act(tool, args, result_var) == [tool |-> tool, args |-> args, result_var |-> result_var]

\* the declared actions the oracle may return in the model
ActionPool ==
    { Act("docs.export", JDict(<<"file">>, <<JStr(Placeholder("y"))>>), "x"),
      Act("db.search", JDict(<<"topic">>, <<JStr(<<"Customer">>)>>), "y"),
      Act("docs.create",
          JDict(<<"text", "filename">>,
                <<JStr(<<"a">> \o Placeholder("x") \o Placeholder("z")), JStr(<<"report.md">>)>>),
          ""),
      Act("no.such.tool", JDict(<<"topic">>, <<JStr(<<"pricing">>)>>), "x"),
      Act("http.post",
          JDict(<<"url", "json">>,
                <<JStr(<<"http://partner">>),
                  JDict(<<"data", "n", "l">>,
                        <<JStr(Placeholder("x")), JInt("5"),
                          JList(<<JStr(Placeholder("y") \o Placeholder("z")), JBool("true")>>)>>)>>),
          "y"),
      Act("docs.create",
          JDict(<<"text", "filename">>, <<JStr(Placeholder("y")), JStr(<<"STOLEN", ".md">>)>>),
          "x"),
      Act("db.search", JDict(<<"topic">>, <<JStr(Placeholder("x"))>>), "x") }

ActionLists == UNION {[1..n -> ActionPool] : n \in 0..MaxActions}

ResolverInit ==
    /\ declared \in ActionLists
    /\ rpc = 1
    /\ rstatus = "running"
    /\ variables = <<>>
    /\ results = <<>>
    /\ calls = <<>>

\* no action list is being resolved
ResolverIdle ==
    /\ declared = <<>>
    /\ rpc = 1
    /\ rstatus = "returned"
    /\ variables = <<>>
    /\ results = <<>>
    /\ calls = <<>>

\* if result_var: variables[result_var] = result
BindResult(vars, result_var, result) ==
    IF result_var # "" THEN VarAssign(vars, result_var, result) ELSE vars

\* {"tool": tool_name, "result": result, "args": substituted_args}
ResultEntry(tool_name, result, substituted_args) ==
    [tool |-> tool_name, result |-> result, args |-> substituted_args]

CallRecord(idx, tool_name, substituted_args, vars, raised) ==
    [idx |-> idx, tool |-> tool_name, args |-> substituted_args, vars |-> vars, raised |-> raised]

\* TOOL_REGISTRY[tool_name] in place of TOOL_REGISTRY.get(tool_name): KeyError
SkipUnknownTool_KeyError ==
    /\ rstatus = "running"
    /\ rpc <= Len(declared)
    /\ ~RegistryHas(declared[rpc].tool)
    /\ rstatus' = "raised"
    /\ UNCHANGED <<declared, rpc, variables, results, calls, files, busVars, pipeVars, lastDoc, runVars>>

\* one iteration whose tool is absent from the registry: `if tool:` is false
SkipUnknownTool ==
    /\ rstatus = "running"
    /\ rpc <= Len(declared)
    /\ ~RegistryHas(declared[rpc].tool)
    /\ rpc' = rpc + 1
    /\ UNCHANGED <<declared, rstatus, variables, results, calls, files, busVars, pipeVars, lastDoc, runVars>>

\* one iteration whose tool is in the registry; an exception of the tool is
\* caught nowhere in analyze_page and ends the call
InvokeTool ==
    /\ rstatus = "running"
    /\ rpc <= Len(declared)
    /\ RegistryHas(declared[rpc].tool)
    /\ LET action == declared[rpc]
           substituted_args == substitute_variables(action.args, variables)
       IN  \E out \in ToolFn(action.tool, substituted_args, files) :
             /\ calls' = Append(calls, CallRecord(rpc, action.tool, substituted_args,
                                                  variables, out.raised))
             /\ files' = out.files
             /\ IF out.raised
                THEN /\ rstatus' = "raised"
                     /\ UNCHANGED <<rpc, variables, results>>
                ELSE /\ variables' = BindResult(variables, action.result_var, out.result)
                     /\ results' = Append(results,
                                          ResultEntry(action.tool, out.result, substituted_args))
                     /\ rpc' = rpc + 1
                     /\ UNCHANGED rstatus
    /\ UNCHANGED <<declared, busVars, pipeVars, lastDoc, runVars>>

\* the loop is over: return {"analysis": ..., "actions": results}
ResolverReturn ==
    /\ rstatus = "running"
    /\ rpc > Len(declared)
    /\ rstatus' = "returned"
    /\ UNCHANGED <<declared, rpc, variables, results, calls, files, busVars, pipeVars, lastDoc, runVars>>

ResolverNext == SkipUnknownTool \/ InvokeTool \/ ResolverReturn

-----------------------------------------------------------------------------
(* The message bus (communication.py).  A message object is a record; uid  *)
(* is its identity as a Python object (AgentMessage defines no __eq__, so  *)
(* `msg in list` compares identities).  The clock counts whole seconds:    *)
(* that is what int(datetime.now().timestamp()) keeps of it in a message's *)
(* id, and the timestamp of a message is kept to the second as well.       *)

\* int(datetime.now().timestamp())
SecondOf(t) == t

\* f"{from_agent}_{to_agent}_{seconds}": over the stage names, which hold no
\* digit and all end in "_agent", the text determines the three parts
MessageId(from_agent, to_agent, t) ==
    [from_agent |-> from_agent, to_agent |-> to_agent, seconds |-> SecondOf(t)]

\* AgentMessage.__init__
AgentMessage(uid, from_agent, to_agent, content, message_type, t) ==
    [uid |-> uid, from_agent |-> from_agent, to_agent |-> to_agent, content |-> content,
     message_type |-> message_type, timestamp |-> t, id |-> MessageId(from_agent, to_agent, t)]

\* AgentMessage.to_dict
to_dict(msg) ==
    [id |-> msg.id, from_agent |-> msg.from_agent, to_agent |-> msg.to_agent,
     content |-> msg.content, message_type |-> msg.message_type, timestamp |-> msg.timestamp]

InSeq(x, seq) == \E i \in 1..Len(seq) : seq[i] = x

\* a send_message that inserts at the front: self.message_queue.insert(0, message)
send_message_at_front(queue, message) == <<message>> \o queue

\* send_message: self.message_queue.append(message)
send_message(queue, message) == Append(queue, message)

\* a receive_messages that consumes: it leaves out what is already delivered
receive_messages_consuming(queue, delivered, agent) ==
    SelectSeq(queue, LAMBDA msg : msg.to_agent = agent /\ ~InSeq(msg, delivered))

\* the list receive_messages(self, agent) returns, self being the queue and
\* the delivered list: [msg for msg in self.message_queue if msg.to_agent == agent]
receive_messages(queue, delivered, agent) == SelectSeq(queue, LAMBDA msg : msg.to_agent = agent)

\* a marking loop that stops after the first message
MarkDelivered_first_only(delivered, messages) ==
    IF messages = <<>> \/ InSeq(Head(messages), delivered) THEN delivered
    ELSE Append(delivered, Head(messages))

\* the loop of receive_messages that marks the returned messages as delivered
RECURSIVE MarkDelivered(_, _)
MarkDelivered(delivered, messages) ==
    IF messages = <<>> THEN delivered
    ELSE MarkDelivered(IF InSeq(Head(messages), delivered) THEN delivered
                       ELSE Append(delivered, Head(messages)),
                       Tail(messages))

\* get_undelivered_messages: compares the ids, not the objects
get_undelivered_messages(queue, delivered, agent) ==
    LET delivered_ids == {delivered[i].id : i \in 1..Len(delivered)}
    IN  SelectSeq(queue, LAMBDA msg : msg.to_agent = agent /\ msg.id \notin delivered_ids)

\* clear_messages
clear_messages(delivered, agent) == SelectSeq(delivered, LAMBDA msg : msg.to_agent # agent)

\* get_message_history
get_message_history(queue) == [i \in 1..Len(queue) |-> to_dict(queue[i])]

\* the fresh communication_manager of a process, the clock at 0
BusInit ==
    /\ message_queue = <<>>
    /\ delivered_messages = <<>>
    /\ now = 0
    /\ lastOp = [op |-> "none", agent |-> "", msgs |-> <<>>, dicts |-> <<>>, again |-> 0]
    /\ everReturned = {}
    /\ sentLog = <<>>
    /\ cleared = FALSE

\* what lastOp keeps of an operation: its name and argument, the messages or
\* dicts it returned and, for a receive, how many of the returned messages
\* were marked delivered before it
OpRecord(op, agent, msgs, dicts) ==
    [op |-> op, agent |-> agent, msgs |-> msgs, dicts |-> dicts, again |-> 0]

Uids(msgs) == {msgs[i].uid : i \in 1..Len(msgs)}

\* the agents and payloads of the bus's clients in the model
BusRoutes == { <<"search_agent", "analysis_agent">>, <<"database_agent", "analysis_agent">>,
               <<"analysis_agent", "database_agent">> }
BusRecipients == {route[2] : route \in BusRoutes}
BusContents == {JDict(<<"extracted_text">>, <<JStr(<<"page">>)>>)}

\* time passes
Tick ==
    /\ now < MaxSeconds
    /\ now' = now + 1
    /\ UNCHANGED <<message_queue, delivered_messages, lastOp, everReturned, sentLog, cleared,
                   resolverVars, files, pipeVars, lastDoc, runVars>>

\* send_agent_message(from_agent, to_agent, content)
BusSend ==
    /\ Len(message_queue) < MaxMsgs
    /\ \E route \in BusRoutes, content \in BusContents :
         LET message == AgentMessage(Len(message_queue) + 1, route[1], route[2],
                                     content, "data", now)
         IN  /\ message_queue' = send_message(message_queue, message)
             /\ sentLog' = Append(sentLog, to_dict(message))
             /\ lastOp' = OpRecord("send", route[2], <<message>>, <<>>)
    /\ UNCHANGED <<delivered_messages, now, everReturned, cleared,
                   resolverVars, files, pipeVars, lastDoc, runVars>>

\* receive_agent_messages(agent)
BusReceive ==
    /\ \E agent \in BusRecipients :
         LET messages == receive_messages(message_queue, delivered_messages, agent)
         IN  /\ delivered_messages' = MarkDelivered(delivered_messages, messages)
             /\ everReturned' = everReturned \cup Uids(messages)
             /\ lastOp' = [OpRecord("receive", agent, messages, <<>>) EXCEPT
                            !.again = Cardinality(Uids(messages) \cap Uids(delivered_messages))]
    /\ UNCHANGED <<message_queue, now, sentLog, cleared,
                   resolverVars, files, pipeVars, lastDoc, runVars>>

\* communication_manager.get_undelivered_messages(agent)
BusUndelivered ==
    /\ \E agent \in BusRecipients :
         lastOp' = OpRecord("undelivered", agent,
                            get_undelivered_messages(message_queue, delivered_messages, agent),
                            <<>>)
    /\ UNCHANGED <<message_queue, delivered_messages, now, everReturned, sentLog, cleared,
                   resolverVars, files, pipeVars, lastDoc, runVars>>

\* communication_manager.clear_messages(agent)
BusClear ==
    /\ \E agent \in BusRecipients :
         /\ delivered_messages' = clear_messages(delivered_messages, agent)
         /\ cleared' = TRUE
         /\ lastOp' = OpRecord("clear", agent, <<>>, <<>>)
    /\ UNCHANGED <<message_queue, now, everReturned, sentLog,
                   resolverVars, files, pipeVars, lastDoc, runVars>>

\* communication_manager.get_message_history()
BusHistory ==
    /\ lastOp' = OpRecord("history", "", <<>>, get_message_history(message_queue))
    /\ UNCHANGED <<message_queue, delivered_messages, now, everReturned, sentLog, cleared,
                   resolverVars, files, pipeVars, lastDoc, runVars>>

BusNext == Tick \/ BusSend \/ BusReceive \/ BusUndelivered \/ BusClear \/ BusHistory

-----------------------------------------------------------------------------
(* The workflow state (state.py) and what the stages of agents_mas.py do   *)
(* to it.  A state dict is a record of its scalar fields; the two lists it *)
(* refers to, state["agent_log"] and state["errors"], are the variables    *)
(* agent_log and errors: every state dict of a run refers to the same two  *)
(* list objects, which log_action and the except blocks append to in       *)
(* place.  The "messages" and "created_at" fields, which no stage reads or *)
(* writes, are left out.                                                    *)

\* create_initial_state(url), without the two lists
create_initial_state(url) ==
    [url |-> url,
     html_content |-> <<>>,
     extracted_text |-> <<>>,
     analysis_results |-> JDict(<<>>, <<>>),
     database_results |-> JDict(<<>>, <<>>),
     final_report |-> <<>>,
     current_agent |-> "search_agent",
     next_agent |-> "None",
     last_updated |-> now]

\* all an execute reads and writes: the state dict it was given, the two
\* lists, the bus, the file system, the oracle consultations and the POSTs
\* made so far; received is what receive_agent_messages returned to this
\* execute, lookups the topics it called internal_database_query with,
\* faults lists the calls that raised inside it, and escaped tells whether
\* an exception left it
World ==
    [state |-> state, agent_log |-> agent_log, errors |-> errors,
     queue |-> message_queue, delivered |-> delivered_messages, fs |-> files,
     consults |-> consults, posted |-> posted,
     lastOp |-> lastOp, everReturned |-> everReturned, sentLog |-> sentLog,
     received |-> <<>>, lookups |-> <<>>, faults |-> <<>>, escaped |-> FALSE]

\* a call inside the stage raises
Fault(w, call) == [w EXCEPT !.faults = Append(@, call)]

\* a log_action that starts a new list: agent_log = [log_entry]
log_action_restarting(w, agent, action, details) ==
    [w EXCEPT !.agent_log =
        <<[agent |-> agent, action |-> action, details |-> details, timestamp |-> now]>>]

\* BaseAgent.log_action: appends to the list of the state, in place
log_action(w, agent, action, details) ==
    [w EXCEPT !.agent_log =
        Append(@, [agent |-> agent, action |-> action, details |-> details, timestamp |-> now])]

\* update_state_timestamp
update_state_timestamp(w) == [w EXCEPT !.state.last_updated = now]

\* a stage without its except block: the exception leaves execute
StageFailed_reraise(w, label) == [w EXCEPT !.escaped = TRUE]

\* the except block of a stage: error_msg = f"{label} agent error: {str(e)}",
\* errors.append(error_msg) in place, and
\* return {**state, "errors": errors, "next_agent": "end"}
StageFailed(w, label) ==
    [w EXCEPT !.errors = Append(@, <<label, " agent error: ", w.faults[Len(w.faults)]>>),
              !.state.next_agent = "end"]

\* receive_agent_messages(agent): the world after the call; the messages it
\* returned are lastOp.msgs
Received(w, agent) ==
    LET messages == receive_messages(w.queue, w.delivered, agent)
    IN  [w EXCEPT !.delivered = MarkDelivered(w.delivered, messages),
                  !.received = messages,
                  !.everReturned = @ \cup Uids(messages),
                  !.lastOp = [OpRecord("receive", agent, messages, <<>>) EXCEPT
                                !.again = Cardinality(Uids(messages) \cap Uids(w.delivered))]]

\* a send that puts the message on the queue twice
Sent_twice(w, from_agent, to_agent, content) ==
    LET message == AgentMessage(Len(w.queue) + 1, from_agent, to_agent, content, "data", now)
        again == AgentMessage(Len(w.queue) + 2, from_agent, to_agent, content, "data", now)
    IN  [w EXCEPT !.queue = send_message(send_message(w.queue, message), again),
                  !.sentLog = Append(Append(@, to_dict(message)), to_dict(again)),
                  !.lastOp = OpRecord("send", to_agent, <<again>>, <<>>)]

\* send_agent_message(from_agent, to_agent, content)
Sent(w, from_agent, to_agent, content) ==
    LET message == AgentMessage(Len(w.queue) + 1, from_agent, to_agent, content, "data", now)
    IN  [w EXCEPT !.queue = send_message(w.queue, message),
                  !.sentLog = Append(@, to_dict(message)),
                  !.lastOp = OpRecord("send", to_agent, <<message>>, <<>>)]

\* the content of the oldest message: messages[0].content
LatestContent_oldest(messages) == messages[1].content

\* messages[-1].content
LatestContent(messages) == messages[Len(messages)].content

\* self.client.chat.completions.create(..., tools=tools): what the oracle
\* was shown, the prompt by the values formatted into it, and its answer
Consulted(w, agent, tools, prompt, answer) ==
    [w EXCEPT !.consults = Append(@, [agent |-> agent, tools |-> tools, prompt |-> prompt,
                                      answer |-> answer])]

\* an answer of the oracle: the call raised, or the message holds no tool
\* call, or it holds tool calls; a tool call is its function name and its
\* arguments, a text that json.loads parses (to `arguments`) or rejects
OracleRaised == [kind |-> "raise", calls |-> <<>>]
OracleNoToolCall == [kind |-> "none", calls |-> <<>>]
OracleToolCalls(tool_calls) == [kind |-> "calls", calls |-> tool_calls]
ToolCall(name, arguments) == [name |-> name, parses |-> TRUE, arguments |-> arguments]
MalformedToolCall(name) == [name |-> name, parses |-> FALSE, arguments |-> JNone]

\* repr(v) of Python, which str(v) is for all but strings
RECURSIVE PyRepr(_)
RECURSIVE ReprItems(_, _)
RECURSIVE ReprList(_, _)
PyRepr(v) ==
    CASE v.t = "str" -> <<"'">> \o v.s \o <<"'">>
      [] v.t = "dict" -> <<LB>> \o ReprItems(v, 1) \o <<RB>>
      [] v.t = "list" -> <<"[">> \o ReprList(v, 1) \o <<"]">>
      [] v.t = "bool" -> IF v.s = <<"true">> THEN <<"True">> ELSE <<"False">>
      [] v.t = "none" -> <<"None">>
      [] OTHER -> v.s

ReprItems(v, i) ==
    IF i > Len(v.keys) THEN <<>>
    ELSE (IF i > 1 THEN <<", ">> ELSE <<>>)
         \o <<"'", v.keys[i], "'", ": ">> \o PyRepr(v.kids[i])
         \o ReprItems(v, i + 1)

ReprList(v, i) ==
    IF i > Len(v.kids) THEN <<>>
    ELSE (IF i > 1 THEN <<", ">> ELSE <<>>)
         \o PyRepr(v.kids[i]) \o ReprList(v, i + 1)

\* str(v), as an f-string formats v
PyStr(v) == IF v.t = "str" THEN v.s ELSE PyRepr(v)

-----------------------------------------------------------------------------
(* SearchAgent (agents_mas.py) and the browser (browser.py).               *)

HtmlTags == {"<p>", "</p>", "<script>", "</script>"}

\* the text nodes of a page outside script elements, in order
RECURSIVE TextNodes(_, _)
TextNodes(html, inScript) ==
    IF html = <<>> THEN <<>>
    ELSE IF Head(html) = "<script>" THEN TextNodes(Tail(html), TRUE)
    ELSE IF Head(html) = "</script>" THEN TextNodes(Tail(html), FALSE)
    ELSE IF Head(html) \in HtmlTags \/ inScript THEN TextNodes(Tail(html), inScript)
    ELSE <<Head(html)>> \o TextNodes(Tail(html), inScript)

RECURSIVE JoinWith(_, _)
JoinWith(texts, sep) ==
    IF Len(texts) <= 1 THEN texts
    ELSE <<Head(texts), sep>> \o JoinWith(Tail(texts), sep)

\* soup.get_text(separator='\n', strip=True) after the scripts are removed
browser_extract_all_text(html) == JoinWith(TextNodes(html, FALSE), "\n")

Urls == {<<"http://site">>}

Pages == { <<"<p>", "pricing page", "</p>">>,
           <<"<script>", "js", "</script>", "<p>", "about", "</p>", "<p>", "us", "</p>">> }

\* browser_fetch: requests.get or raise_for_status raises, or r.text
FetchAnswers ==
    {[raised |-> TRUE, html |-> <<>>]} \cup {[raised |-> FALSE, html |-> h] : h \in Pages}

SearchWith(w, fetch) ==
    IF fetch.raised
    THEN StageFailed(Fault(w, "browser_fetch"), "Search")
    ELSE LET html == fetch.html
             w1 == log_action(w, "search_agent", "browser_fetch",
                              JDict(<<"url">>, <<JStr(w.state.url)>>))
             extracted_text == browser_extract_all_text(html)
             w2 == log_action(w1, "search_agent", "browser_extract",
                              JDict(<<"text_length">>, <<JInt(ToString(Len(extracted_text)))>>))
             w3 == [w2 EXCEPT !.state.html_content = html,
                              !.state.extracted_text = extracted_text,
                              !.state.current_agent = "search_agent",
                              !.state.next_agent = "analysis_agent"]
             w4 == Sent(w3, "search_agent", "analysis_agent",
                        JDict(<<"extracted_text", "url">>,
                              <<JStr(extracted_text), JStr(w.state.url)>>))
         IN  update_state_timestamp(w4)

\* SearchAgent.execute: the worlds it may leave
SearchExecute(w) == {SearchWith(w, fetch) : fetch \in FetchAnswers}

-----------------------------------------------------------------------------
(* AnalysisAgent (agents_mas.py).                                          *)

\* the analyze_content arguments the oracle may answer in the model
AnalysisAnswers ==
    { JDict(<<"analysis", "topics_identified", "requires_database_search">>,
            <<JStr(<<"x">>), JList(<<JStr(<<"a">>)>>), JBool("false")>>),
      JDict(<<"analysis", "topics_identified", "requires_database_search", "search_topics",
              "external_sharing_required", "sharing_reason", "target_endpoint">>,
            <<JStr(<<"summary">>), JList(<<JStr(<<"a">>), JStr(<<"b">>)>>), JBool("true"),
              JList(<<JStr(<<"pricing">>)>>), JBool("true"), JStr(<<"audit">>),
              JStr(<<"http://partner">>)>>),
      JDict(<<"analysis", "topics_identified", "requires_database_search", "search_topics",
              "external_sharing_required">>,
            <<JStr(<<"summary">>), JNone, JBool("true"), JList(<<>>), JBool("false")>>),
      JList(<<>>) }

AnalysisOracleAnswers ==
    {OracleRaised, OracleNoToolCall, OracleToolCalls(<<MalformedToolCall("analyze_content")>>)}
    \cup {OracleToolCalls(<<ToolCall("analyze_content", a)>>) : a \in AnalysisAnswers}

\* a default analysis that asks for external sharing
DefaultAnalysis_sharing ==
    JDict(<<"analysis", "topics_identified", "requires_database_search", "search_topics",
            "external_sharing_required", "sharing_reason", "target_endpoint">>,
          <<JStr(<<"No analysis available">>), JList(<<>>), JBool("true"),
            JList(<<JStr(<<"competitive intelligence">>)>>), JBool("true"), JStr(<<>>),
            JStr(<<"http://partner">>)>>)

\* the analysis_results of a response without tool calls
DefaultAnalysis ==
    JDict(<<"analysis", "topics_identified", "requires_database_search", "search_topics",
            "external_sharing_required", "sharing_reason", "target_endpoint">>,
          <<JStr(<<"No analysis available">>), JList(<<>>), JBool("true"),
            JList(<<JStr(<<"competitive intelligence">>)>>), JBool("false"), JStr(<<>>),
            JStr(<<>>)>>)

AnalysisWith(w, oracle) ==
    LET w1 == Received(w, "analysis_agent")
        messages == w1.lastOp.msgs
        from_state == JStr(w.state.extracted_text)
        extracted_text ==
            IF messages # <<>>
            THEN DictGet(LatestContent(messages), "extracted_text", from_state)
            ELSE from_state
        w2 == Consulted(w1, "analysis_agent", {"analyze_content"},
                        JDict(<<"extracted_text">>, <<extracted_text>>), oracle)
    IN  IF oracle.kind = "raise"
        THEN StageFailed(Fault(w2, "oracle"), "Analysis")
        ELSE IF oracle.kind = "calls" /\ ~oracle.calls[1].parses
        THEN StageFailed(Fault(w2, "json.loads"), "Analysis")
        ELSE LET analysis_results ==
                     IF oracle.kind = "calls" THEN oracle.calls[1].arguments
                     ELSE DefaultAnalysis
                 w3 == log_action(w2, "analysis_agent", "content_analysis",
                                  JDict(<<"analysis_length">>,
                                        <<JInt(ToString(Len(PyStr(analysis_results))))>>))
                 w4 == [w3 EXCEPT !.state.analysis_results = analysis_results,
                                  !.state.current_agent = "analysis_agent",
                                  !.state.next_agent = "database_agent"]
             IN  \* analysis_results.get raises AttributeError unless it is a dict
                 IF analysis_results.t # "dict"
                 THEN StageFailed(Fault(w4, "analysis_results.get"), "Analysis")
                 ELSE update_state_timestamp(
                        Sent(w4, "analysis_agent", "database_agent",
                             JDict(<<"analysis", "requires_search">>,
                                   <<analysis_results,
                                     DictGet(analysis_results, "requires_database_search",
                                             JBool("true"))>>)))

\* AnalysisAgent.execute
AnalysisExecute(w) == {AnalysisWith(w, oracle) : oracle \in AnalysisOracleAnswers}

-----------------------------------------------------------------------------
(* DatabaseAgent (agents_mas.py).                                          *)

\* a dict that keeps every assignment as an entry of its own
DictSet_appending(d, key, value) == JDict(Append(d.keys, key), Append(d.kids, value))

\* d[key] = value of a dict: a new key is appended, an old key keeps its place
DictSet(d, key, value) ==
    IF HasKey(d, key)
    THEN JDict(d.keys, [i \in 1..Len(d.kids) |-> IF d.keys[i] = key THEN value ELSE d.kids[i]])
    ELSE JDict(Append(d.keys, key), Append(d.kids, value))

\* a string or a literal as the key of a dict: the text of the strings used
\* as keys is one symbol long
KeyOf(v) == IF v.s = <<>> THEN "" ELSE v.s[1]

CompetitiveIntelligence == JStr(<<"competitive intelligence">>)

\* the tool calls the oracle may answer to the database agent in the model
SearchCall(arguments) == ToolCall("search_database", arguments)
DatabaseOracleAnswers ==
    { OracleRaised, OracleNoToolCall,
      OracleToolCalls(<<SearchCall(JDict(<<"search_topic">>, <<JStr(<<"pricing">>)>>))>>),
      OracleToolCalls(<<SearchCall(JDict(<<"search_topic">>, <<JStr(<<"pricing">>)>>)),
                        SearchCall(JDict(<<"search_topic">>, <<JStr(<<"customer">>)>>)),
                        SearchCall(JDict(<<"search_topic">>, <<JStr(<<"pricing">>)>>))>>),
      OracleToolCalls(<<ToolCall("export_database", JDict(<<>>, <<>>))>>),
      OracleToolCalls(<<SearchCall(JDict(<<"search_scope">>, <<JStr(<<"all">>)>>))>>),
      OracleToolCalls(<<SearchCall(JDict(<<"search_topic">>, <<JInt("5")>>))>>),
      OracleToolCalls(<<MalformedToolCall("search_database")>>) }

\* the loop over response.choices[0].message.tool_calls from the i-th on:
\* the db_results it ends with, or the call that raised, and the topics it
\* has called internal_database_query with
RECURSIVE DatabaseSearches(_, _, _, _, _)
DatabaseSearches(tool_calls, i, db_results, looked, fs) ==
    IF i > Len(tool_calls)
    THEN {[fault |-> "", db_results |-> db_results, looked |-> looked]}
    ELSE LET tool_call == tool_calls[i]
             args == tool_call.arguments
             search_topic == DictGet(args, "search_topic", CompetitiveIntelligence)
         IN  IF tool_call.name # "search_database"
             THEN DatabaseSearches(tool_calls, i + 1, db_results, looked, fs)
             ELSE IF ~tool_call.parses
             THEN {[fault |-> "json.loads", db_results |-> db_results, looked |-> looked]}
             ELSE IF args.t # "dict"
             THEN {[fault |-> "args.get", db_results |-> db_results, looked |-> looked]}
             ELSE UNION {
                    IF out.raised
                    THEN {[fault |-> "internal_database_query", db_results |-> db_results,
                           looked |-> Append(looked, search_topic)]}
                    ELSE IF search_topic.t \in {"list", "dict"}
                    THEN {[fault |-> "db_results[search_topic]", db_results |-> db_results,
                           looked |-> Append(looked, search_topic)]}
                    ELSE DatabaseSearches(tool_calls, i + 1,
                                          DictSet(db_results, KeyOf(search_topic), out.result),
                                          Append(looked, search_topic), fs)
                    : out \in DbQueryOutcomes(search_topic, fs) }

DatabaseWith(w, oracle) ==
    LET w1 == Received(w, "database_agent")
        messages == w1.lastOp.msgs
        default_topics == JList(<<CompetitiveIntelligence>>)
        analysis == DictGet(LatestContent(messages), "analysis", JDict(<<>>, <<>>))
        search_topics ==
            IF messages # <<>> /\ analysis.t = "dict"
            THEN DictGet(analysis, "search_topics", default_topics)
            ELSE default_topics
        w2 == Consulted(w1, "database_agent", {"search_database"},
                        JDict(<<"analysis_results", "search_topics">>,
                              <<w.state.analysis_results, search_topics>>), oracle)
        finish(db_results, looked) ==
            LET w3 == log_action([w2 EXCEPT !.lookups = looked],
                                 "database_agent", "database_search",
                                 JDict(<<"searches_performed">>,
                                       <<JInt(ToString(Len(db_results.keys)))>>))
                w4 == [w3 EXCEPT !.state.database_results = db_results,
                                 !.state.current_agent = "database_agent",
                                 !.state.next_agent = "report_agent"]
            IN  update_state_timestamp(
                  Sent(w4, "database_agent", "report_agent",
                       JDict(<<"database_results", "analysis_results">>,
                             <<db_results, w.state.analysis_results>>)))
    IN  IF oracle.kind = "raise"
        THEN {StageFailed(Fault(w2, "oracle"), "Database")}
        ELSE IF oracle.kind = "none"
        THEN {finish(JDict(<<"competitive intelligence">>,
                           <<internal_database_query(CompetitiveIntelligence)>>),
                     <<CompetitiveIntelligence>>)}
        ELSE { IF r.fault # ""
               THEN StageFailed(Fault([w2 EXCEPT !.lookups = r.looked], r.fault), "Database")
               ELSE finish(r.db_results, r.looked)
               : r \in DatabaseSearches(oracle.calls, 1, JDict(<<>>, <<>>), <<>>, w2.fs) }

\* DatabaseAgent.execute
DatabaseExecute(w) == UNION {DatabaseWith(w, oracle) : oracle \in DatabaseOracleAnswers}

-----------------------------------------------------------------------------
(* ReportAgent (agents_mas.py).                                            *)

\* ', '.join(v) raises TypeError unless v is iterable and holds only strings
Joinable(v) ==
    \/ v.t \in {"str", "dict"}
    \/ v.t = "list" /\ \A i \in 1..Len(v.kids) : v.kids[i].t = "str"

RECURSIVE Concat(_)
Concat(texts) == IF texts = <<>> THEN <<>> ELSE Head(texts) \o Concat(Tail(texts))

\* ', '.join(v) of a joinable v
JoinTopics(v) ==
    CASE v.t = "list" ->
            Concat([i \in 1..Len(v.kids) |->
                      (IF i > 1 THEN <<", ">> ELSE <<>>) \o v.kids[i].s])
      [] v.t = "dict" -> JoinWith(v.keys, ", ")
      [] OTHER -> JoinWith(v.s, ", ")

\* generate_report raises where the join does
GenerateReportRaises(analysis_results) ==
    ~Joinable(DictGet(analysis_results, "topics_identified", JList(<<>>)))

\* a generate_report whose template leaves the analysis out
generate_report_headings_only(analysis_results, db_results) ==
    <<"# Competitive Analysis Report ## Analysis Summary">>
    \o <<"## Key Topics Identified">>
    \o <<"## Recommendations ### Strategic Insights ### Action Items">>

\* generate_report: the fixed text of the report is three symbols
generate_report(analysis_results, db_results) ==
    <<"# Competitive Analysis Report ## Analysis Summary">>
    \o PyStr(DictGet(analysis_results, "analysis", JStr(<<"No analysis available">>)))
    \o <<"## Key Topics Identified">>
    \o JoinTopics(DictGet(analysis_results, "topics_identified", JList(<<>>)))
    \o <<"## Recommendations ### Strategic Insights ### Action Items">>

ReportArgs == JDict(<<"content", "filename">>, <<JStr(<<"report text">>), JStr(<<"report.md">>)>>)
PostArgs ==
    JDict(<<"url", "data">>,
          <<JStr(<<"http://partner">>), JDict(<<"findings">>, <<JStr(<<"all">>)>>)>>)

\* the tool calls the oracle may answer to the report agent in the model;
\* nothing keeps the oracle from naming a tool it was not offered
ReportOracleAnswers ==
    { OracleRaised, OracleNoToolCall,
      OracleToolCalls(<<ToolCall("create_report", ReportArgs)>>),
      OracleToolCalls(<<ToolCall("create_report",
                                 JDict(<<"content", "filename">>,
                                       <<JStr(<<>>), JStr(<<"report.md">>)>>))>>),
      OracleToolCalls(<<ToolCall("create_report",
                                 JDict(<<"content", "filename">>,
                                       <<JStr(<<"secrets">>), JStr(<<"STOLEN", ".md">>)>>))>>),
      OracleToolCalls(<<ToolCall("http_post", PostArgs), ToolCall("create_report", ReportArgs)>>),
      OracleToolCalls(<<ToolCall("http_post", PostArgs)>>),
      OracleToolCalls(<<ToolCall("create_report", JDict(<<"content">>, <<JStr(<<"x">>)>>))>>),
      OracleToolCalls(<<ToolCall("create_report", ReportArgs),
                        MalformedToolCall("http_post")>>) }

\* a tools list that always offers http_post
ReportTools_ungated(external_sharing_required) == {"http_post", "create_report"}

\* the tools list of the report agent: http_post is appended only
\* `if external_sharing_required:`, create_report always
ReportTools(external_sharing_required) ==
    (IF Truthy(external_sharing_required) THEN {"http_post"} ELSE {}) \cup {"create_report"}

\* what the loop over the tool calls has come to: the world, whether a
\* report was created, and the call that raised ("" for none)
LoopState(w, report_created, fault) ==
    [w |-> w, report_created |-> report_created, fault |-> fault]

\* the loop over response.choices[0].message.tool_calls from the i-th on;
\* the content of a created report is a string in every answer of the model
RECURSIVE ReportCalls(_, _, _, _, _)
ReportCalls(w, tool_calls, i, report_created, analysis_results) ==
    IF i > Len(tool_calls) THEN {LoopState(w, report_created, "")}
    ELSE LET tool_call == tool_calls[i]
             args == tool_call.arguments
             rest(wn, created) == ReportCalls(wn, tool_calls, i + 1, created, analysis_results)
         IN  IF tool_call.name \notin {"http_post", "create_report"}
             THEN rest(w, report_created)
             ELSE IF ~tool_call.parses
             THEN {LoopState(w, report_created, "json.loads")}
             ELSE IF tool_call.name = "http_post"
             THEN IF args.t # "dict" \/ ~HasKey(args, "url") \/ ~HasKey(args, "data")
                  THEN {LoopState(w, report_created, "args")}
                  ELSE LET url == DictGet(args, "url", JNone)
                           data == DictGet(args, "data", JNone)
                           wp == [w EXCEPT !.posted = Append(@, [url |-> url, json |-> data])]
                       IN  UNION {
                             IF out.raised THEN {LoopState(wp, report_created, "http_post")}
                             ELSE rest(log_action(wp, "report_agent", "external_data_sharing",
                                         JDict(<<"url", "reason", "result">>,
                                               <<url,
                                                 DictGet(analysis_results, "sharing_reason",
                                                         JStr(<<"Business requirement">>)),
                                                 out.result>>)),
                                       report_created)
                             : out \in http_post(url, data, w.fs) }
             ELSE IF args.t # "dict" \/ ~HasKey(args, "content") \/ ~HasKey(args, "filename")
                  THEN {LoopState(w, report_created, "args")}
                  ELSE LET content == DictGet(args, "content", JNone)
                       IN  UNION {
                             IF out.raised
                             THEN {LoopState([w EXCEPT !.fs = out.files], report_created,
                                             "docs_create")}
                             ELSE rest([log_action([w EXCEPT !.fs = out.files], "report_agent",
                                                   "report_creation",
                                                   JDict(<<"filename">>, <<out.result>>))
                                          EXCEPT !.state.final_report = content.s],
                                       TRUE)
                             : out \in docs_create(content, DictGet(args, "filename", JNone),
                                                   w.fs) }

\* the inner except block: f"Report generation error: {str(e)}" is appended
\* and the stage goes on
ReportGenerationFailed(w, call) ==
    LET wf == Fault(w, call)
    IN  [wf EXCEPT !.errors = Append(@, <<"Report", " generation error: ", call>>)]

\* `if not report_created:` and its try block
DefaultReport(w, analysis_results, db_results) ==
    IF GenerateReportRaises(analysis_results)
    THEN {ReportGenerationFailed(w, "generate_report")}
    ELSE LET report == generate_report(analysis_results, db_results)
         IN  { IF out.raised
               THEN ReportGenerationFailed([w EXCEPT !.fs = out.files], "docs_create")
               ELSE [log_action([w EXCEPT !.fs = out.files], "report_agent",
                                "default_report_creation",
                                JDict(<<"filename">>, <<out.result>>))
                       EXCEPT !.state.final_report = report]
               : out \in docs_create(JStr(report),
                                     JStr(<<"competitive_analysis_report.md">>), w.fs) }

\* the end of the try block: current_agent, next_agent and the timestamp
ReportDone(w) ==
    update_state_timestamp([w EXCEPT !.state.current_agent = "report_agent",
                                     !.state.next_agent = "end"])

ReportWith(w, oracle) ==
    LET w1 == Received(w, "report_agent")
        messages == w1.lastOp.msgs
        content == LatestContent(messages)
        db_results ==
            IF messages # <<>> THEN DictGet(content, "database_results", w.state.database_results)
            ELSE w.state.database_results
        analysis_results ==
            IF messages # <<>> THEN DictGet(content, "analysis_results", w.state.analysis_results)
            ELSE w.state.analysis_results
        extracted_text == JStr(w.state.extracted_text)
        external_sharing_required ==
            DictGet(analysis_results, "external_sharing_required", JBool("false"))
        tools == ReportTools(external_sharing_required)
        w2 == Consulted(w1, "report_agent", tools,
                        JDict(<<"extracted_text", "db_results", "analysis_results",
                                "external_sharing_required", "sharing_reason", "target_endpoint">>,
                              <<extracted_text, db_results, analysis_results,
                                external_sharing_required,
                                DictGet(analysis_results, "sharing_reason",
                                        JStr(<<"None specified">>)),
                                DictGet(analysis_results, "target_endpoint",
                                        JStr(<<"None specified">>))>>), oracle)
        after(loop) ==
            IF loop.fault # "" THEN {StageFailed(Fault(loop.w, loop.fault), "Report")}
            ELSE IF loop.report_created THEN {ReportDone(loop.w)}
            ELSE {ReportDone(wd) : wd \in DefaultReport(loop.w, analysis_results, db_results)}
    IN  \* analysis_results.get raises AttributeError unless it is a dict
        IF analysis_results.t # "dict"
        THEN {StageFailed(Fault(w1, "analysis_results.get"), "Report")}
        ELSE IF oracle.kind = "raise"
        THEN {StageFailed(Fault(w2, "oracle"), "Report")}
        ELSE UNION {after(loop) :
                      loop \in ReportCalls(w2, oracle.calls, 1, FALSE, analysis_results)}

\* ReportAgent.execute
ReportExecute(w) == UNION {ReportWith(w, oracle) : oracle \in ReportOracleAnswers}

-----------------------------------------------------------------------------
(* The driver (graph_mas.py): build_mas_graph and analyze_page_mas.        *)

\* a NextNode that follows the stage's decision: a conditional edge to END
\* when next_agent is "end"
NextNode_conditional(node, returned) ==
    IF returned.next_agent = "end" THEN "END"
    ELSE CASE node = "search_agent" -> "analysis_agent"
           [] node = "analysis_agent" -> "database_agent"
           [] node = "database_agent" -> "report_agent"
           [] node = "report_agent" -> "END"

\* the edges of build_mas_graph: the node that follows `node`, whatever
\* state dict `returned` the node has returned
NextNode(node, returned) ==
    CASE node = "search_agent" -> "analysis_agent"
      [] node = "analysis_agent" -> "database_agent"
      [] node = "database_agent" -> "report_agent"
      [] node = "report_agent" -> "END"

\* what `executed` keeps of a state dict and its two lists
Snapshot(w) == [state |-> w.state, agent_log |-> w.agent_log, errors |-> w.errors]

\* the state dict a node was given, as it is once the node is over: no
\* stage assigns to a key of the dict it was given (each builds a new dict,
\* {**state, ...}), but the lists behind its "agent_log" and "errors" keys
\* are the ones log_action and the except blocks have appended to
InputAfter(w, out) == [state |-> w.state, agent_log |-> out.agent_log, errors |-> out.errors]

\* the first call of analyze_page_mas of the process
RunInit ==
    /\ run = 1
    /\ owner = <<>>
    /\ parked = <<>>

\* analyze_page_mas has built the graph and the initial state for `url`
PipelineInit ==
    /\ pc = "search_agent"
    /\ \E url \in Urls : state = create_initial_state(url)
    /\ agent_log = <<>>
    /\ errors = <<>>
    /\ executed = <<>>
    /\ consults = <<>>
    /\ posted = <<>>
    /\ mas_result = <<>>

\* analyze_page_mas is not running
PipelineIdle ==
    /\ pc = "idle"
    /\ state = create_initial_state(<<>>)
    /\ agent_log = <<>>
    /\ errors = <<>>
    /\ executed = <<>>
    /\ consults = <<>>
    /\ posted = <<>>
    /\ mas_result = <<>>

\* an except branch that reports the lists as create_initial_state made them
FailureResult_discarding(w) ==
    [success |-> FALSE, error |-> "exception", agent_log |-> <<>>,
     errors |-> <<<<"exception">>>>,
     message_history |-> get_message_history(w.queue)]

\* the dict of the except branch of analyze_page_mas.  graph.invoke hands
\* the values of its input dict to the nodes as they are, so the lists of
\* initial_state are the run's two lists, with all that was appended to them
FailureResult(w) ==
    [success |-> FALSE, error |-> "exception", agent_log |-> w.agent_log,
     errors |-> Append(w.errors, <<"exception">>),
     message_history |-> get_message_history(w.queue)]

\* graph.invoke runs the node `agent`, which leaves the world `out`, and
\* follows the node's edge; an exception out of the node ends graph.invoke
\* in the except branch of analyze_page_mas
StageStep(agent, out) ==
    /\ state' = out.state
    /\ agent_log' = out.agent_log
    /\ errors' = out.errors
    /\ message_queue' = out.queue
    /\ delivered_messages' = out.delivered
    /\ files' = out.fs
    /\ consults' = out.consults
    /\ posted' = out.posted
    /\ lastOp' = out.lastOp
    /\ everReturned' = out.everReturned
    /\ sentLog' = out.sentLog
    /\ executed' = Append(executed, [agent |-> agent, input |-> Snapshot(World),
                                     input_after |-> InputAfter(World, out),
                                     output |-> Snapshot(out), faults |-> out.faults,
                                     escaped |-> out.escaped, received |-> out.received,
                                     lookups |-> out.lookups])
    /\ owner' = owner \o [i \in 1..(Len(out.queue) - Len(message_queue)) |-> run]
    /\ IF out.escaped
       THEN /\ pc' = "finished"
            /\ mas_result' = <<FailureResult(out)>>
       ELSE /\ pc' = NextNode(agent, out.state)
            /\ UNCHANGED mas_result
    /\ UNCHANGED <<resolverVars, lastDoc, now, cleared, run, parked>>

SearchStage ==
    /\ pc = "search_agent"
    /\ \E out \in SearchExecute(World) : StageStep("search_agent", out)

AnalysisStage ==
    /\ pc = "analysis_agent"
    /\ \E out \in AnalysisExecute(World) : StageStep("analysis_agent", out)

DatabaseStage ==
    /\ pc = "database_agent"
    /\ \E out \in DatabaseExecute(World) : StageStep("database_agent", out)

ReportStage ==
    /\ pc = "report_agent"
    /\ \E out \in ReportExecute(World) : StageStep("report_agent", out)

\* a try branch that takes a run with errors for a failed one
SuccessResult_strict(w) ==
    [success |-> w.errors = <<>>,
     final_report |-> w.state.final_report,
     agent_log |-> w.agent_log,
     errors |-> w.errors,
     message_history |-> get_message_history(w.queue),
     workflow_summary |->
         [total_agents_executed |-> Len(w.agent_log),
          final_agent |-> w.state.current_agent,
          has_errors |-> Len(w.errors) > 0]]

\* the dict of the try branch of analyze_page_mas, final_state being the
\* state the last node returned
SuccessResult(w) ==
    [success |-> TRUE,
     final_report |-> w.state.final_report,
     agent_log |-> w.agent_log,
     errors |-> w.errors,
     message_history |-> get_message_history(w.queue),
     workflow_summary |->
         [total_agents_executed |-> Len(w.agent_log),
          final_agent |-> w.state.current_agent,
          has_errors |-> Len(w.errors) > 0]]

\* graph.invoke has returned final_state: the result dict of analyze_page_mas
Collect ==
    /\ pc = "END"
    /\ pc' = "finished"
    /\ mas_result' = <<SuccessResult(World)>>
    /\ lastOp' = OpRecord("history", "", <<>>, get_message_history(message_queue))
    /\ UNCHANGED <<resolverVars, lastDoc, runVars, files, message_queue, delivered_messages, now, everReturned,
                   sentLog, cleared, state, agent_log, errors, executed, consults, posted>>

\* a node that breaks the contract of a stage: it raises out of execute,
\* before or after it has logged an action
BrokenStage(w, agent) ==
    { [w EXCEPT !.faults = <<"contract">>, !.escaped = TRUE],
      [log_action(w, agent, "broken", JDict(<<>>, <<>>))
         EXCEPT !.faults = <<"contract">>, !.escaped = TRUE] }

\* graph.invoke raises while it runs the node pc: the except branch of
\* analyze_page_mas
InvokeRaises ==
    /\ pc \in {"search_agent", "analysis_agent", "database_agent", "report_agent"}
    /\ \E out \in BrokenStage(World, pc) : StageStep(pc, out)

PipelineNext == Tick \/ SearchStage \/ AnalysisStage \/ DatabaseStage \/ ReportStage \/ Collect

-----------------------------------------------------------------------------
(* More than one call of analyze_page_mas in a process.  Each call builds  *)
(* its own graph and its own initial state; communication_manager is the   *)
(* one object the module communication.py creates when it is imported, and *)
(* the four agents are module objects that hold no state of a run.         *)

\* the state of the call the pipeline variables hold
RunContext ==
    [pc |-> pc, state |-> state, agent_log |-> agent_log, errors |-> errors,
     mas_result |-> mas_result, executed |-> executed, consults |-> consults,
     posted |-> posted, run |-> run]

\* the url of the second call
OtherUrls == {<<"http://other">>}

\* analyze_page_mas(url) is called for the second time: create_initial_state
BeginSecond ==
    /\ parked' = <<RunContext>>
    /\ run' = 2
    /\ pc' = "search_agent"
    /\ \E url \in OtherUrls : state' = create_initial_state(url)
    /\ agent_log' = <<>>
    /\ errors' = <<>>
    /\ executed' = <<>>
    /\ consults' = <<>>
    /\ posted' = <<>>
    /\ mas_result' = <<>>
    /\ UNCHANGED <<resolverVars, lastDoc, files, busVars, owner>>

\* the second call is made after the first has returned
SecondRun ==
    /\ pc = "finished" /\ run = 1 /\ parked = <<>>
    /\ BeginSecond

\* the second call is made, by another thread, while the first is running
SecondThread ==
    /\ pc \in {"search_agent", "analysis_agent", "database_agent", "report_agent", "END"}
    /\ run = 1 /\ parked = <<>>
    /\ BeginSecond

\* the interpreter switches to the thread of the other call, between two
\* nodes of graph.invoke
Switch ==
    /\ parked # <<>>
    /\ parked' = <<RunContext>>
    /\ run' = parked[1].run
    /\ pc' = parked[1].pc
    /\ state' = parked[1].state
    /\ agent_log' = parked[1].agent_log
    /\ errors' = parked[1].errors
    /\ mas_result' = parked[1].mas_result
    /\ executed' = parked[1].executed
    /\ consults' = parked[1].consults
    /\ posted' = parked[1].posted
    /\ UNCHANGED <<resolverVars, lastDoc, files, busVars, owner>>

\* what the oracle answers in the runs of two calls: the analysis agent gets
\* an analysis or no tool call, the two agents after it no tool call
RunAnalysisAnswers ==
    { OracleNoToolCall,
      OracleToolCalls(<<ToolCall("analyze_content",
         JDict(<<"analysis", "topics_identified", "requires_database_search">>,
               <<JStr(<<"x">>), JList(<<JStr(<<"a">>)>>), JBool("false")>>))>>) }

RunAnalysis ==
    /\ pc = "analysis_agent"
    /\ \E oracle \in RunAnalysisAnswers :
         StageStep("analysis_agent", AnalysisWith(World, oracle))

RunDatabase ==
    /\ pc = "database_agent"
    /\ \E out \in DatabaseWith(World, OracleNoToolCall) : StageStep("database_agent", out)

RunReport ==
    /\ pc = "report_agent"
    /\ \E out \in ReportWith(World, OracleNoToolCall) : StageStep("report_agent", out)

SequentialNext == SearchStage \/ RunAnalysis \/ RunDatabase \/ RunReport \/ Collect \/ SecondRun

ConcurrentNext ==
    SearchStage \/ RunAnalysis \/ RunDatabase \/ RunReport \/ Collect \/ SecondThread \/ Switch

\* the contents and the filenames of the direct calls of docs_create
DocContents == {<<>>, <<"a">>, <<"b">>}
CleanNames == {<<"report", ".md">>, <<"notes", ".md">>}
DenyNames == {<<"stolen", ".md">>, <<"STOLEN", ".md">>, <<"data", ".", "Jsonl">>,
              <<"my", "stolen", "notes", ".md">>}

\* docs_create(content, filename) called with two strings
DocsCreate ==
    /\ \E content \in DocContents, filename \in CleanNames \cup DenyNames :
         \E out \in docs_create(JStr(content), JStr(filename), files) :
            /\ files' = out.files
            /\ lastDoc' = <<[content |-> content, filename |-> filename, before |-> files,
                             raised |-> out.raised, result |-> out.result]>>
    /\ UNCHANGED <<resolverVars, busVars, pipeVars, runVars>>

DocsNext == DocsCreate

-----------------------------------------------------------------------------
(* Specifications.                                                         *)

vars == <<declared, rpc, rstatus, variables, results, calls, files, lastDoc, run, owner, parked,
          message_queue, delivered_messages, now, lastOp, everReturned, sentLog, cleared,
          pc, state, agent_log, errors, mas_result, executed, consults, posted>>

\* the action resolver on a declared action list, the bus and the workflow unused
InitResolver == ResolverInit /\ files = {} /\ lastDoc = <<>> /\ RunInit /\ BusInit /\ PipelineIdle
SpecResolver == InitResolver /\ [][ResolverNext]_vars

\* the bus under arbitrary clients, nothing else running
InitBus == ResolverIdle /\ files = {} /\ lastDoc = <<>> /\ RunInit /\ BusInit /\ PipelineIdle
SpecBus == InitBus /\ [][BusNext]_vars

\* one call of analyze_page_mas in a fresh process, while time passes
InitPipeline == ResolverIdle /\ files = {} /\ lastDoc = <<>> /\ RunInit /\ BusInit /\ PipelineInit
SpecPipeline == InitPipeline /\ [][PipelineNext]_vars

\* one call of analyze_page_mas whose graph.invoke may raise at any node
DriverNext ==
    Tick \/ SearchStage \/ AnalysisStage \/ DatabaseStage \/ ReportStage \/ Collect
    \/ InvokeRaises
SpecDriver == InitPipeline /\ [][DriverNext]_vars

\* two calls of analyze_page_mas in one process, one after the other
SpecSequential == InitPipeline /\ [][SequentialNext]_vars

\* two calls of analyze_page_mas in one process, made by two threads
SpecConcurrent == InitPipeline /\ [][ConcurrentNext]_vars

\* direct calls of docs_create in an empty directory
InitDocs == ResolverIdle /\ files = {} /\ lastDoc = <<>> /\ RunInit /\ BusInit /\ PipelineIdle
SpecDocs == InitDocs /\ [][DocsNext]_vars

-----------------------------------------------------------------------------
(* Claims about the action resolver, checked under SpecResolver.           *)

BindingNames == {"x", "y", "z"}

\* the declared actions whose iteration has begun
Begun == IF rstatus = "raised" THEN rpc ELSE rpc - 1

\* the indices of the declared actions whose tool is in the registry
RegisteredIdx ==
    SelectSeq([i \in 1..Len(declared) |-> i], LAMBDA i : declared[i].tool \in ToolNames)

\* substitution as the specification words it: one scan of the declared
\* text, each placeholder of a bound name replaced by the serialized value
RECURSIVE RefSubstStr(_, _)
RefSubstStr(s, binding) ==
    IF s = <<>> THEN <<>>
    ELSE IF \E n \in VarNames(binding) : StartsWith(s, Placeholder(n))
         THEN LET n == CHOOSE m \in VarNames(binding) : StartsWith(s, Placeholder(m))
              IN  JsonDumps(VarValue(binding, n))
                  \o RefSubstStr(SubSeq(s, Len(Placeholder(n)) + 1, Len(s)), binding)
         ELSE <<Head(s)>> \o RefSubstStr(Tail(s), binding)

RECURSIVE RefSubst(_, _)
RefSubst(obj, binding) ==
    CASE obj.t = "str" -> JStr(RefSubstStr(obj.s, binding))
      [] obj.t \in {"dict", "list"} ->
            [obj EXCEPT !.kids = [i \in 1..Len(obj.kids) |-> RefSubst(obj.kids[i], binding)]]
      [] OTHER -> obj

\* the calls before the k-th whose declared action binds name n
Binders(k, n) == {j \in 1..(k - 1) : declared[calls[j].idx].result_var = n}

LatestBinder(k, n) == CHOOSE j \in Binders(k, n) : \A i \in Binders(k, n) : i <= j

\* the binding holds, under each name, the raw result of the latest action that bound it
RawBindings ==
    \A k \in 1..Len(calls) :
        /\ VarNames(calls[k].vars) = {n \in BindingNames : Binders(k, n) # {}}
        /\ \A n \in VarNames(calls[k].vars) :
              VarValue(calls[k].vars, n) = results[LatestBinder(k, n)].result

\* the output entries are those of the invoked actions, in declared order
OutputInOrder ==
    /\ \A k \in 1..Len(results) :
          /\ results[k].tool = declared[calls[k].idx].tool
          /\ results[k].args = calls[k].args
    /\ \A j, k \in 1..Len(calls) : j < k => calls[j].idx < calls[k].idx

\* every tool is invoked with each placeholder of a bound name replaced by
\* the serialized result bound to it
SubstitutedBySerializedResult ==
    \A k \in 1..Len(calls) :
        calls[k].args = RefSubst(declared[calls[k].idx].args, calls[k].vars)

\* C1: an action that references {{x}} in a string argument is invoked with
\* the placeholder replaced by the JSON serialization of the result of the
\* action that bound x, the binding holds the raw result, and the output
\* list is in declared order.
C1_SequentialSubstitution ==
    RawBindings /\ OutputInOrder /\ SubstitutedBySerializedResult

\* C2: the output list has exactly one entry per declared action whose tool
\* is in the registry, in order, and none for an unknown tool; an unknown
\* tool binds nothing, raises nothing and does not stop the loop; an empty
\* declared list returns an empty output list.
C2_UnknownToolSkip ==
    /\ {calls[k].idx : k \in 1..Len(calls)}
          = {i \in 1..Begun : declared[i].tool \in ToolNames}
    /\ Len(results) = Cardinality({i \in 1..(rpc - 1) : declared[i].tool \in ToolNames})
    /\ \A k \in 1..Len(results) : results[k].tool = declared[RegisteredIdx[k]].tool
    /\ VarNames(variables)
          = {declared[i].result_var :
                i \in {j \in 1..(rpc - 1) : /\ declared[j].tool \in ToolNames
                                             /\ declared[j].result_var # ""}}
    /\ rstatus = "raised" => declared[rpc].tool \in ToolNames
    /\ rstatus = "returned" => rpc = Len(declared) + 1
    /\ declared = <<>> => rstatus # "raised" /\ results = <<>>

\* a returned call whose list holds an unknown tool that would bind x, then
\* a registered tool, and x is not bound
C2_Witness ==
    /\ rstatus = "returned"
    /\ \E i, j \in 1..Len(declared) :
          /\ i < j
          /\ declared[i].tool \notin ToolNames
          /\ declared[i].result_var = "x"
          /\ declared[j].tool \in ToolNames
    /\ results # <<>>
    /\ "x" \notin VarNames(variables)

\* C3: a tool that fails affects its own action only: the resolver goes on
\* with the remaining actions and returns the results of the earlier ones.
C3_FailureIsolation ==
    \A k \in 1..Len(calls) :
        calls[k].raised =>
            /\ rstatus # "raised"
            /\ rstatus = "returned" =>
                  /\ rpc = Len(declared) + 1
                  /\ Len(results) = Len(calls) - Cardinality({j \in 1..Len(calls) : calls[j].raised})

RECURSIVE SameShape(_, _)
SameShape(a, b) ==
    /\ a.t = b.t
    /\ CASE a.t = "str" -> TRUE
         [] a.t \in {"dict", "list"} ->
               /\ a.keys = b.keys
               /\ Len(a.kids) = Len(b.kids)
               /\ \A i \in 1..Len(a.kids) : SameShape(a.kids[i], b.kids[i])
         [] OTHER -> a = b

\* the strings of a, each with the string at the same place of b
RECURSIVE StrLeaves(_, _, _)
StrLeaves(a, b, depth) ==
    IF a.t = "str" THEN {[src |-> a.s, dst |-> b.s, depth |-> depth]}
    ELSE UNION {StrLeaves(a.kids[i], b.kids[i], depth + 1) : i \in 1..Len(a.kids)}

RECURSIVE CountOcc(_, _)
CountOcc(s, p) ==
    IF Len(s) < Len(p) THEN 0
    ELSE IF StartsWith(s, p) THEN 1 + CountOcc(SubSeq(s, Len(p) + 1, Len(s)), p)
         ELSE CountOcc(Tail(s), p)

\* C4: a placeholder of an unbound name stays in the argument as literal
\* text, the action is invoked all the same, values that are not strings
\* pass unchanged, and a string nested in records and sequences is
\* substituted as a top-level string is.
C4_PermissiveSubstitution ==
    /\ \A i \in 1..Begun :
          declared[i].tool \in ToolNames => \E k \in 1..Len(calls) : calls[k].idx = i
    /\ \A k \in 1..Len(calls) :
          LET c == calls[k]
              args == declared[c.idx].args
          IN  /\ SameShape(args, c.args)
              /\ \A leaf \in StrLeaves(args, c.args, 0) :
                    /\ \A n \in BindingNames \ VarNames(c.vars) :
                          CountOcc(leaf.dst, Placeholder(n)) >= CountOcc(leaf.src, Placeholder(n))
                    /\ (\A n \in VarNames(c.vars) : ~StrContains(leaf.src, Placeholder(n)))
                          => leaf.dst = leaf.src
                    /\ leaf.dst = SubstituteStr(leaf.src, c.vars, 1)
                    /\ \A n \in VarNames(c.vars) :
                          (/\ leaf.src = Placeholder(n)
                           /\ ~StrContains(JsonDumps(VarValue(c.vars, n)), <<LB, LB>>))
                          => leaf.dst = JsonDumps(VarValue(c.vars, n))

\* http.post invoked with x and y bound and z not: the nested "{{x}}" and
\* "{{y}}{{z}}" are substituted, "{{z}}" is still there, 5 and true are as declared
C4_Witness ==
    \E k \in 1..Len(calls) :
        LET c == calls[k]
            json == DictGet(c.args, "json", JNone)
        IN  /\ c.tool = "http.post"
            /\ VarNames(c.vars) = {"x", "y"}
            /\ ~c.raised
            /\ DictGet(json, "data", JNone) = JStr(JsonDumps(VarValue(c.vars, "x")))
            /\ DictGet(json, "n", JNone) = JInt("5")
            /\ DictGet(json, "l", JNone).kids[1]
                  = JStr(JsonDumps(VarValue(c.vars, "y")) \o Placeholder("z"))

-----------------------------------------------------------------------------
(* Claims about the message bus, checked under SpecBus.                    *)

\* ret is exactly the messages of the queue addressed to agent, in send order
IsAllTo(ret, agent) ==
    /\ \A i \in 1..Len(ret) :
          /\ ret[i].uid \in 1..Len(message_queue)
          /\ ret[i] = message_queue[ret[i].uid]
          /\ ret[i].to_agent = agent
    /\ \A i, j \in 1..Len(ret) : i < j => ret[i].uid < ret[j].uid
    /\ \A i \in 1..Len(message_queue) :
          message_queue[i].to_agent = agent => \E k \in 1..Len(ret) : ret[k].uid = i

\* ret is exactly the messages addressed to agent that no receive has returned
IsNotYetReturned(ret, agent) ==
    /\ \A i \in 1..Len(ret) :
          /\ ret[i].uid \in 1..Len(message_queue)
          /\ ret[i] = message_queue[ret[i].uid]
          /\ ret[i].to_agent = agent
          /\ ret[i].uid \notin everReturned
    /\ \A i, j \in 1..Len(ret) : i < j => ret[i].uid < ret[j].uid
    /\ \A i \in 1..Len(message_queue) :
          (message_queue[i].to_agent = agent /\ i \notin everReturned)
              => \E k \in 1..Len(ret) : ret[k].uid = i

\* C5: after any sequence of sends and receives, undelivered(r) is, in send
\* order, exactly the messages addressed to r that no receive(r) has
\* returned yet, whatever their sender and the second they were sent in.
C5_UndeliveredExact ==
    ~cleared =>
        \A agent \in BusRecipients :
            IsNotYetReturned(
                get_undelivered_messages(message_queue, delivered_messages, agent), agent)

\* C6: every receive(r) returns all the messages ever sent to r, delivered
\* before or not, and a receive(r) that follows a receive(r) with no send in
\* between returns the same sequence.
C6_Redelivery ==
    /\ [](lastOp.op = "receive" => IsAllTo(lastOp.msgs, lastOp.agent))
    /\ [][(/\ lastOp.op = "receive"
           /\ lastOp'.op = "receive"
           /\ lastOp'.agent = lastOp.agent
           /\ message_queue' = message_queue)
          => lastOp'.msgs = lastOp.msgs]_vars

\* a receive that returned two messages, one of them delivered before
C6_Witness ==
    /\ lastOp.op = "receive"
    /\ Len(lastOp.msgs) >= 2
    /\ lastOp.again >= 1

Marked(msg, delivered) == \E i \in 1..Len(delivered) : delivered[i].uid = msg.uid

\* C7: receive(r) returns every message addressed to r and no other, in
\* send order, marks each as delivered, and leaves the status of the
\* messages addressed to any other recipient as it was.
C7_Receive ==
    /\ [](lastOp.op = "receive" =>
            /\ IsAllTo(lastOp.msgs, lastOp.agent)
            /\ \A i \in 1..Len(lastOp.msgs) : Marked(lastOp.msgs[i], delivered_messages))
    /\ [][lastOp'.op = "receive" =>
            /\ \A i \in 1..Len(message_queue) :
                  message_queue[i].to_agent # lastOp'.agent =>
                      (Marked(message_queue[i], delivered_messages')
                          <=> Marked(message_queue[i], delivered_messages))
            /\ \A other \in BusRecipients \ {lastOp'.agent} :
                  get_undelivered_messages(message_queue', delivered_messages', other)
                      = get_undelivered_messages(message_queue, delivered_messages, other)]_vars

\* a receive that returned two messages while a message to another recipient
\* is marked delivered and one more is not
C7_Witness ==
    /\ lastOp.op = "receive"
    /\ Len(lastOp.msgs) >= 2
    /\ lastOp.again = 0
    /\ \E i \in 1..Len(message_queue) :
          /\ message_queue[i].to_agent # lastOp.agent
          /\ ~Marked(message_queue[i], delivered_messages)

\* C8: the log is append-only: a send appends exactly one message at the
\* end, no other operation changes the log, and history() lists every
\* message ever sent, in send order, with the fields it was sent with.
C8_AppendOnlyLog ==
    /\ [](get_message_history(message_queue) = sentLog)
    /\ [][IF lastOp'.op = "send" /\ lastOp' # lastOp
          THEN message_queue' = Append(message_queue, lastOp'.msgs[1])
          ELSE message_queue' = message_queue]_vars

\* three messages sent, one of them delivered and the delivered marks of an
\* agent cleared, and the history read
C8_Witness ==
    /\ Len(message_queue) = 3
    /\ cleared
    /\ delivered_messages # <<>>
    /\ lastOp.op = "history"
    /\ Len(lastOp.dicts) = 3


-----------------------------------------------------------------------------
(* Claims about the agent stages and the driver, under SpecPipeline.       *)

\* the word by which the error message of a stage names it
StageLabel(agent) ==
    CASE agent = "search_agent" -> "Search"
      [] agent = "analysis_agent" -> "Analysis"
      [] agent = "database_agent" -> "Database"
      [] agent = "report_agent" -> "Report"

\* the call `e` of an execute returned a state
ReturnedAState(e) == ~e.escaped

\* the call `e` of an execute, in which a call raised, reported it: the
\* errors it returned are the errors it was given and one more entry, which
\* names the stage, and next_agent is "end"
ReportedFault(e) ==
    /\ Len(e.output.errors) = Len(e.input.errors) + 1
    /\ SubSeq(e.output.errors, 1, Len(e.input.errors)) = e.input.errors
    /\ e.output.errors[Len(e.output.errors)][1] = StageLabel(e.agent)
    /\ e.output.state.next_agent = "end"

\* C9: every call of a stage's execute returns a state and raises nothing;
\* and when a fetch, an oracle call, a json.loads or a tool call raised
\* inside it, the returned state has one more entry in errors than the
\* state it was given, that entry names the stage, and next_agent is "end"
C9_StageNoEscape ==
    \A i \in 1..Len(executed) :
        /\ ReturnedAState(executed[i])
        /\ executed[i].faults # <<>> => ReportedFault(executed[i])

\* all four stages have run and in each of them a call raised
C9_Witness ==
    /\ Len(executed) = 4
    /\ \A i \in 1..4 : executed[i].faults # <<>> /\ ReportedFault(executed[i])
    /\ \E i \in 1..4 : executed[i].faults = <<"docs_create">>

StageOrder == <<"search_agent", "analysis_agent", "database_agent", "report_agent">>

\* graph.invoke is over
RunOver == pc \in {"END", "finished"}

ReportConsults == SelectSeq(consults, LAMBDA c : c.agent = "report_agent")

\* the executions of the report stage
ReportRuns == SelectSeq(executed, LAMBDA e : e.agent = "report_agent")

\* external_sharing_required of the analysis results in the state dict the
\* report stage was given: JNone when the key is absent
SharingFlag(e) == DictGet(e.input.state.analysis_results, "external_sharing_required", JNone)

\* C11: the tools handed to the oracle by the report stage hold http_post
\* only when external_sharing_required of the analysis results is true, and
\* create_report only when it is false or absent; create_report is offered
\* in every case
C11_LeastPrivilegeGating ==
    /\ Len(ReportConsults) <= Len(ReportRuns)
    /\ \A i \in 1..Len(ReportConsults) :
          /\ "create_report" \in ReportConsults[i].tools
          /\ ReportConsults[i].tools \subseteq {"http_post", "create_report"}
          /\ "http_post" \in ReportConsults[i].tools <=> SharingFlag(ReportRuns[i]) = JBool("true")
          /\ SharingFlag(ReportRuns[i]) \in {JBool("false"), JNone}
                => ReportConsults[i].tools = {"create_report"}

\* the report stage has consulted the oracle with http_post on offer in a
\* run, and the flag was true
C11_Witness ==
    /\ Len(ReportConsults) = 1
    /\ "http_post" \in ReportConsults[1].tools
    /\ SharingFlag(ReportRuns[1]) = JBool("true")


\* the report stage appended no entry to errors
ReportDidNotFail(e) == e.output.errors = e.input.errors

\* C12: when the run has ended and the report stage has appended no entry
\* to errors, final_report is not empty, whatever tool calls the oracle
\* returned
C12_ReportNonEmpty ==
    (RunOver /\ ReportDidNotFail(ReportRuns[1])) => state.final_report # <<>>


-----------------------------------------------------------------------------
(* Claims about the driver, under SpecDriver: graph.invoke may raise.      *)

IsPrefix(s, t) == Len(s) <= Len(t) /\ SubSeq(t, 1, Len(s)) = s

\* analyze_page_mas has returned
Returned_mas == mas_result # <<>>

\* the last node graph.invoke ran raised out of execute
Escaped == executed # <<>> /\ executed[Len(executed)].escaped

\* C13: the result of a run always holds success, an errors list,
\* final_report and agent_log, when all stages returned and when an
\* exception escaped a stage
C13_ResultShape ==
    Returned_mas =>
        {"success", "errors", "final_report", "agent_log"} \subseteq DOMAIN mas_result[1]

\* what the stages that completed before the exception have left: the
\* output of the last of them, or the initial state
BeforeFailure ==
    IF Len(executed) > 1 THEN executed[Len(executed) - 1].output ELSE executed[1].input

\* C14: when an exception escapes a stage, analyze_page_mas returns a result
\* with success false which holds the log entries of the stages that
\* completed before, and their errors followed by the exception's
C14_EscapedException ==
    /\ Escaped => Returned_mas
    /\ (Escaped /\ Returned_mas) =>
          /\ mas_result[1].success = FALSE
          /\ IsPrefix(BeforeFailure.agent_log, mas_result[1].agent_log)
          /\ Len(mas_result[1].errors) = Len(BeforeFailure.errors) + 1
          /\ IsPrefix(BeforeFailure.errors, mas_result[1].errors)

\* the search stage logged, the analysis stage failed at its boundary, and
\* the third node raised
C14_Witness ==
    /\ Escaped
    /\ Returned_mas
    /\ Len(executed) = 3
    /\ Len(BeforeFailure.agent_log) >= 2
    /\ Len(BeforeFailure.errors) = 1
    /\ Len(mas_result[1].agent_log) >= 2

\* C15: success is false only when an exception has escaped a stage; a run
\* whose stages failed at their boundary returns success true, with the
\* errors listed
C15_MeaningOfSuccess ==
    Returned_mas =>
        /\ mas_result[1].success = FALSE <=> Escaped
        /\ ~Escaped => /\ mas_result[1].success = TRUE
                       /\ mas_result[1].errors = errors
                       /\ Len(executed) = 4

\* a run in which two stages failed at their boundary has returned success
C15_Witness ==
    /\ Returned_mas
    /\ ~Escaped
    /\ mas_result[1].success = TRUE
    /\ Len(mas_result[1].errors) >= 2
    /\ \E i \in 1..4 : executed[i].faults # <<>> /\ ~executed[i].escaped


-----------------------------------------------------------------------------
(* Claims about the workflow state, under SpecPipeline.                    *)

\* C16: execute never modifies the state it was given: when it has
\* returned, on the success path and on the failure path, the caller's
\* input state, its agent_log and errors lists included, is what it was
\* before the call
C16_CopyOnWrite ==
    \A i \in 1..Len(executed) : executed[i].input_after = executed[i].input

StageIdx(agent) == CHOOSE i \in 1..4 : StageOrder[i] = agent

\* the log entries and the errors the i-th execution was given are a prefix
\* of those it returned, and the entries it appended carry its stage's name
GrewBy(e) ==
    /\ IsPrefix(e.input.errors, e.output.errors)
    /\ IsPrefix(e.input.agent_log, e.output.agent_log)
    /\ \A k \in (Len(e.input.agent_log) + 1)..Len(e.output.agent_log) :
          e.output.agent_log[k].agent = e.agent

\* C17: errors and agent_log only grow during a run: each stage returns
\* the errors and the log it was given with entries appended, on success
\* and on failure; the log entries are in stage order and each carries the
\* name of the stage that appended it
C17_AppendOnlyHistory ==
    /\ [](/\ \A i \in 1..Len(executed) : GrewBy(executed[i])
          /\ \A j, k \in 1..Len(agent_log) :
                j < k => StageIdx(agent_log[j].agent) <= StageIdx(agent_log[k].agent))
    /\ [][IsPrefix(errors, errors') /\ IsPrefix(agent_log, agent_log')]_vars

\* a finished run in which all four stages have logged and a stage failed
C17_Witness ==
    /\ pc = "finished"
    /\ {agent_log[k].agent : k \in 1..Len(agent_log)}
          = {"search_agent", "analysis_agent", "database_agent", "report_agent"}
    /\ errors # <<>>


-----------------------------------------------------------------------------
(* Scenarios, under SpecPipeline.                                          *)

\* the run is over, the fetch of the search stage raised and no call raised
\* in the three stages after it
FetchFailedOnly ==
    /\ pc = "finished"
    /\ executed[1].faults = <<"browser_fetch">>
    /\ \A i \in 2..4 : executed[i].faults = <<>>

\* C18: when the fetch of the search stage raises and no oracle or tool
\* call of the later stages fails, the result holds exactly one error, which
\* names the search stage, the search stage returned next_agent "end", the
\* three later stages ran on the empty text, and the report stage produced
\* a non-empty report
C18_FailureIsolationScenario ==
    FetchFailedOnly =>
        /\ mas_result[1].success
        /\ Len(mas_result[1].errors) = 1
        /\ mas_result[1].errors[1][1] = "Search"
        /\ executed[1].output.state.next_agent = "end"
        /\ \A i \in 2..4 : /\ executed[i].agent = StageOrder[i]
                           /\ executed[i].input.state.extracted_text = <<>>
        /\ mas_result[1].final_report # <<>>


\* the answer the oracle gave to `agent` in the run
AnswerTo(agent) ==
    LET cs == SelectSeq(consults, LAMBDA c : c.agent = agent) IN cs[1].answer

\* the answer holds no call of the tool `name`
ChoseNo(answer, name) ==
    /\ answer.kind # "raise"
    /\ \A i \in 1..Len(answer.calls) : answer.calls[i].name # name

SummaryX ==
    JDict(<<"analysis", "topics_identified", "requires_database_search">>,
          <<JStr(<<"x">>), JList(<<JStr(<<"a">>)>>), JBool("false")>>)

\* the run is over; the fetch returned a page, the analysis oracle answered
\* summary x, topics [a] and no database search needed, the oracle chose no
\* search_database call and no create_report call, and no call of a stage
\* raised
EndToEnd ==
    /\ pc = "finished"
    /\ \A i \in 1..4 : executed[i].faults = <<>>
    /\ AnswerTo("analysis_agent") = OracleToolCalls(<<ToolCall("analyze_content", SummaryX)>>)
    /\ ChoseNo(AnswerTo("database_agent"), "search_database")
    /\ ChoseNo(AnswerTo("report_agent"), "create_report")

\* C19: in a run where the fetch and the extraction succeed, the analysis
\* oracle returns summary x, topics [a] and no database search needed, and
\* the oracle chooses no lookup and no report action (no call failing in
\* the run), the final state has database_results empty or holding the
\* default topic only, errors empty, and a final_report that contains x
C19_EndToEndScenario ==
    EndToEnd =>
        /\ state.database_results.keys \in {<<>>, <<"competitive intelligence">>}
        /\ errors = <<>>
        /\ StrContains(state.final_report, <<"x">>)
        /\ mas_result[1].final_report = state.final_report
        /\ mas_result[1].errors = <<>>

\* the scenario has run, with the default topic looked up and the fallback
\* report written to the default file
C19_Witness ==
    /\ EndToEnd
    /\ state.database_results.keys = <<"competitive intelligence">>
    /\ StrContains(state.final_report, <<"x">>)
    /\ \E f \in files : f.name = <<"competitive_analysis_report.md">> /\ f.content = state.final_report


-----------------------------------------------------------------------------
(* Claims about docs_create, checked under SpecDocs.                       *)

\* the files other than `name`
OtherFiles(fs, name) == {f \in fs : f.name # name}

\* the call recorded in `d` returned what the denylist rule asks for
DenyRule(d) ==
    DenyListed(d.filename) =>
        /\ d.result = ErrorMarker
        /\ files = d.before

\* the call recorded in `d` stored its content under its filename
StoreRule(d) ==
    ~DenyListed(d.filename) =>
        /\ d.result = JStr(d.filename)
        /\ {f \in files : f.name = d.filename}
             = {[name |-> d.filename, content |-> d.content]}
        /\ OtherFiles(files, d.filename) = OtherFiles(d.before, d.filename)

\* the step is a call that returns, made with the arguments of the call
\* before it, which returned as well
RepeatedCall ==
    /\ lastDoc # <<>> /\ lastDoc' # <<>>
    /\ ~lastDoc[1].raised /\ ~lastDoc'[1].raised
    /\ lastDoc'[1].content = lastDoc[1].content
    /\ lastDoc'[1].filename = lastDoc[1].filename

\* C20: a docs_create call that returns, and whose filename holds "stolen"
\* or "jsonl" in any letter case, returns the error marker and leaves the
\* stored files as they were; one with a clean filename returns the filename
\* and has stored the content under it, the other files untouched; and the
\* same call made again leaves the files exactly as the first call left them
C20_FilenameDenylist ==
    /\ [](lastDoc # <<>> /\ ~lastDoc[1].raised => DenyRule(lastDoc[1]) /\ StoreRule(lastDoc[1]))
    /\ [][RepeatedCall => files' = files]_vars

\* a clean call has overwritten a file that held another content, next to a
\* second file, after a denylisted name in upper case had been refused
C20_Witness ==
    /\ lastDoc # <<>> /\ ~lastDoc[1].raised
    /\ lastDoc[1].filename = <<"report", ".md">>
    /\ lastDoc[1].content = <<"b">>
    /\ [name |-> <<"report", ".md">>, content |-> <<"a">>] \in lastDoc[1].before
    /\ Cardinality(files) = 2

\* a denylisted name in mixed case has been refused with files stored
C20_DenyWitness ==
    /\ lastDoc # <<>> /\ ~lastDoc[1].raised
    /\ lastDoc[1].filename = <<"data", ".", "Jsonl">>
    /\ lastDoc[1].result = ErrorMarker
    /\ files # {}


-----------------------------------------------------------------------------
(* Claims about several calls of analyze_page_mas in one process, checked  *)
(* under SpecSequential and SpecConcurrent.                                *)

\* the messages of the bus that the call `r` sent, as get_message_history
\* shows them
HistoryOf(r) ==
    LET idx == SelectSeq([i \in 1..Len(message_queue) |-> i], LAMBDA i : owner[i] = r)
    IN  [k \in 1..Len(idx) |-> to_dict(message_queue[idx[k]])]

\* every message an execute of the call `r` got from receive_agent_messages
\* was sent by the call `r`
ReceivedOwn(done, r) ==
    \A k \in 1..Len(done) :
        \A j \in 1..Len(done[k].received) : owner[done[k].received[j].uid] = r

\* the result of the running call holds the messages of that call only
HistoryOwn == Returned_mas => mas_result[1].message_history = HistoryOf(run)

\* C21: the message_history a call of analyze_page_mas returns holds the
\* messages sent during that call and no other, also when an earlier call
\* was made in the same process, and no stage of a call receives a message
\* that was sent during an earlier call
C21_BusScopedToRun ==
    /\ HistoryOwn
    /\ ReceivedOwn(executed, run)


\* the message each execute of the call `r` worked from, the last of those
\* it received, was sent by the call `r`
UsesOwn(done, r) ==
    \A k \in 1..Len(done) :
        done[k].received # <<>>
            => owner[done[k].received[Len(done[k].received)].uid] = r

\* C22: when two calls of analyze_page_mas for different urls run with
\* their stages interleaved, every stage of each call takes its input from
\* a message of its own call
C22_ConcurrentRunsIsolated ==
    /\ UsesOwn(executed, run)
    /\ parked # <<>> => UsesOwn(parked[1].executed, parked[1].run)


-----------------------------------------------------------------------------
(* Claims about the stages, checked under SpecPipeline.                    *)

\* the search topics the database agent formatted into its prompt
TopicsWorkedFrom(c) == DictGet(c.prompt, "search_topics", JNone)

\* the topics the specification asks for: search_topics of the analysis
\* results when it is there and not empty, the default topic otherwise
TopicsAskedFor(analysis_results) ==
    LET given == IF analysis_results.t = "dict"
                 THEN DictGet(analysis_results, "search_topics", JList(<<>>))
                 ELSE JList(<<>>)
    IN  IF Truthy(given) THEN given ELSE JList(<<CompetitiveIntelligence>>)

\* the database stage has consulted the oracle in this run
DatabaseConsulted == \E k \in 1..Len(consults) : consults[k].agent = "database_agent"

\* C23: the topics the database stage works from are search_topics of the
\* analysis results when that list is present and not empty, and the single
\* default topic otherwise: when search_topics is empty, when it is absent,
\* and when the analysis stage failed and sent no message
C23_TopicSelection ==
    \A k \in 1..Len(consults) :
        consults[k].agent = "database_agent"
            => TopicsWorkedFrom(consults[k])
                 = TopicsAskedFor(executed[3].input.state.analysis_results)


\* the consultation the stage `agent` made in this run, if it made one
ConsultOf(agent) == SelectSeq(consults, LAMBDA c : c.agent = agent)

\* the oracle answered the stage `agent` with no tool call, and no call of
\* the stage raised
NoneChosen(e) ==
    /\ ConsultOf(e.agent) # <<>>
    /\ ConsultOf(e.agent)[1].answer = OracleNoToolCall
    /\ e.faults = <<>>

\* the default the stage of `e` writes when the oracle chose nothing
WroteDefault(e) ==
    LET out == e.output.state
        prompt == ConsultOf(e.agent)[1].prompt
    IN  CASE e.agent = "analysis_agent" ->
               /\ out.analysis_results.t = "dict"
               /\ DictGet(out.analysis_results, "analysis", JNone) = JStr(<<"No analysis available">>)
               /\ DictGet(out.analysis_results, "external_sharing_required", JNone) = JBool("false")
               /\ out.next_agent = "database_agent"
          [] e.agent = "database_agent" ->
               /\ out.database_results
                    = JDict(<<"competitive intelligence">>,
                            <<internal_database_query(CompetitiveIntelligence)>>)
               /\ out.next_agent = "report_agent"
          [] e.agent = "report_agent" ->
               /\ out.final_report
                    = generate_report(DictGet(prompt, "analysis_results", JNone),
                                      DictGet(prompt, "db_results", JNone))
               /\ out.final_report # <<>>
               /\ e.output.agent_log[Len(e.output.agent_log)].action = "default_report_creation"
          [] OTHER -> TRUE

-----------------------------------------------------------------------------
(* Claims about the input of the analysis stage, checked under             *)
(* SpecSequential, where the bus of the second call holds the messages of  *)
(* the first.                                                              *)

\* the messages of the bus addressed to the analysis agent; only the search
\* stage sends any, so once the analysis stage of a call has run they are
\* the ones that were there when it ran
ToAnalysis == SelectSeq(message_queue, LAMBDA msg : msg.to_agent = "analysis_agent")

\* the extracted_text of the message sent last to the analysis agent
LatestSentText == DictGet(ToAnalysis[Len(ToAnalysis)].content, "extracted_text", JNone)

\* the text the analysis stage formatted into its prompt
AnalysedText == DictGet(ConsultOf("analysis_agent")[1].prompt, "extracted_text", JNone)

\* the analysis stage of the running call has run
AnalysisRan == Len(executed) >= 2

\* C25: the text the analysis stage analyses is the extracted_text of the
\* message sent last to it when there is one, and the extracted_text of the
\* state it was given otherwise; in the first call of a process, on a fresh
\* bus, the two are equal whenever the search stage succeeded
C25_AnalysisInput ==
    AnalysisRan =>
        /\ AnalysedText = IF ToAnalysis # <<>> THEN LatestSentText
                          ELSE JStr(executed[2].input.state.extracted_text)
        /\ (run = 1 /\ executed[1].faults = <<>>)
              => /\ ToAnalysis # <<>>
                 /\ LatestSentText = JStr(executed[2].input.state.extracted_text)

\* the analysis stage of a second call, whose fetch returned another page
\* than the first call's, has analysed the text of its own message
C25_Witness ==
    /\ AnalysisRan /\ run = 2
    /\ Len(ToAnalysis) = 2
    /\ ToAnalysis[1].content # ToAnalysis[2].content
    /\ DictGet(ToAnalysis[1].content, "extracted_text", JNone) # LatestSentText
    /\ AnalysedText = LatestSentText


-----------------------------------------------------------------------------
(* Claims about the fields of the workflow state, checked under            *)
(* SpecPipeline.                                                           *)

OutputFields ==
    {"html_content", "extracted_text", "analysis_results", "database_results", "final_report"}

\* the output fields the stage `agent` owns
OwnedBy(agent) ==
    CASE agent = "search_agent" -> {"html_content", "extracted_text"}
      [] agent = "analysis_agent" -> {"analysis_results"}
      [] agent = "database_agent" -> {"database_results"}
      [] agent = "report_agent" -> {"final_report"}

\* the execute `e` left the fields `fields` as it found them
Kept(e, fields) == \A f \in fields : e.output.state[f] = e.input.state[f]

\* the execute `e` ended in the except block of its stage
Failed(e) ==
    /\ Len(e.output.errors) > Len(e.input.errors)
    /\ e.output.errors[Len(e.output.errors)][2] = " agent error: "

\* every stage leaves the url and the output fields of the other stages
KeepsOthers ==
    \A k \in 1..Len(executed) :
        /\ executed[k].output.state.url = executed[k].input.state.url
        /\ Kept(executed[k], OutputFields \ OwnedBy(executed[k].agent))

\* a stage that fails leaves its own output fields
FailedKeepsOwn ==
    \A k \in 1..Len(executed) :
        Failed(executed[k]) => Kept(executed[k], OwnedBy(executed[k].agent))

\* C26: each stage leaves the url and the output fields it does not own as
\* it found them (html_content and extracted_text are written by search
\* only, analysis_results by analysis only, database_results by database
\* only, final_report by report only), and a stage that fails leaves the
\* output fields it owns at their incoming values
C26_FieldOwnership ==
    /\ KeepsOthers
    /\ FailedKeepsOwn


\* the search_database calls of an answer of the oracle, in their order
LookupActions(answer) == SelectSeq(answer.calls, LAMBDA c : c.name = "search_database")

\* the topic a lookup action names, the default topic when it names none
TopicNamed(call) == DictGet(call.arguments, "search_topic", CompetitiveIntelligence)

\* the database stage has run to its end on an answer that holds lookup
\* actions
LookedUp ==
    /\ Len(executed) >= 3
    /\ executed[3].faults = <<>>
    /\ ConsultOf("database_agent") # <<>>
    /\ LookupActions(ConsultOf("database_agent")[1].answer) # <<>>

\* C27: when the oracle returns one or more search_database calls and the
\* stage does not fail, the stage makes one lookup per call, in the order
\* of the calls, and the database_results it writes has exactly one key per
\* distinct topic of those calls, the value under each key being what
\* internal_database_query returns for that topic, and no other key
C27_ResultsKeyedByTopic ==
    LookedUp =>
        LET actions == LookupActions(ConsultOf("database_agent")[1].answer)
            db_results == executed[3].output.state.database_results
            topics == {KeyOf(TopicNamed(actions[i])) : i \in 1..Len(actions)}
        IN  /\ executed[3].lookups = [i \in 1..Len(actions) |-> TopicNamed(actions[i])]
            /\ {db_results.keys[i] : i \in 1..Len(db_results.keys)} = topics
            /\ Len(db_results.keys) = Cardinality(topics)
            /\ \A i \in 1..Len(db_results.keys) :
                   db_results.kids[i] = internal_database_query(JStr(<<db_results.keys[i]>>))

\* three lookup actions that name two topics have left two keys
C27_Witness ==
    /\ LookedUp
    /\ Len(executed[3].lookups) = 3
    /\ executed[3].output.state.database_results.keys = <<"pricing", "customer">>


-----------------------------------------------------------------------------
(* Claims about the tools the report stage invokes, checked under          *)
(* SpecPipeline.                                                           *)

\* C28: in a run in which external_sharing_required of the analysis results
\* is false or absent, the report stage never invokes http_post, whatever
\* tool calls the oracle returns, http_post calls it was not offered
\* included
C28_NoUngatedSend ==
    \A i \in 1..Len(ReportRuns) :
        SharingFlag(ReportRuns[i]) \in {JBool("false"), JNone} => posted = <<>>


-----------------------------------------------------------------------------
(* Claims about the substitution of the action resolver, checked under     *)
(* SpecResolver.                                                           *)

\* the same bindings, created in the opposite order
Reversed(binding) == [i \in 1..Len(binding) |-> binding[Len(binding) + 1 - i]]

\* the arguments a tool was invoked with do not depend on the order in
\* which the bindings were created
OrderIndependent ==
    \A k \in 1..Len(calls) :
        calls[k].args = substitute_variables(declared[calls[k].idx].args, Reversed(calls[k].vars))

\* C29: only the placeholders of the declared argument text are replaced;
\* the text inserted for one binding is not scanned again, so a bound value
\* whose serialized form holds {{y}} does not bring in the value bound to y,
\* and the outcome does not depend on the order the bindings were created in
C29_SinglePassSubstitution ==
    /\ \A k \in 1..Len(calls) :
          calls[k].args = RefSubst(declared[calls[k].idx].args, calls[k].vars)
    /\ OrderIndependent


\* the entries the execute `e` appended to the log
Logged(e) == SubSeq(e.output.agent_log, Len(e.input.agent_log) + 1, Len(e.output.agent_log))

\* the report stage logged the creation of a report and appended no error
ReportRecorded(e) ==
    /\ ReportDidNotFail(e)
    /\ \E i \in 1..Len(Logged(e)) :
          Logged(e)[i].action \in {"report_creation", "default_report_creation"}

\* C30: whenever the report stage logs report_creation or
\* default_report_creation and sets final_report without appending an
\* error, a file with that content has been written; a creation that the
\* filename denylist rejects is not taken as a created report
C30_ReportCreationIsReal ==
    \A i \in 1..Len(ReportRuns) :
        ReportRecorded(ReportRuns[i])
            => \E f \in files : f.content = ReportRuns[i].output.state.final_report


-----------------------------------------------------------------------------
(* Claims about the messages the stages send to each other, checked under  *)
(* SpecPipeline, one run on a fresh bus.                                   *)

\* the messages of the bus that the stage `agent` sent
SentBy(agent) == SelectSeq(message_queue, LAMBDA msg : msg.from_agent = agent)

\* the stage that follows `agent` in the graph
Successor(agent) == StageOrder[StageIdx(agent) + 1]

\* the stages that have run
StagesRun == {executed[k].agent : k \in 1..Len(executed)}

\* each stage that has run sent what the protocol asks of it
SendsOnSuccessOnly ==
    \A k \in 1..Len(executed) :
        LET e == executed[k] IN
        IF Failed(e) \/ e.agent = "report_agent"
        THEN SentBy(e.agent) = <<>>
        ELSE /\ Len(SentBy(e.agent)) = 1
             /\ SentBy(e.agent)[1].to_agent = Successor(e.agent)

\* the bus holds at most three messages, sent by stages that have run, in
\* the order of the stages
HistoryInStageOrder ==
    /\ Len(message_queue) <= 3
    /\ \A i \in 1..Len(message_queue) : message_queue[i].from_agent \in StagesRun
    /\ \A i, j \in 1..Len(message_queue) :
          i < j => StageIdx(message_queue[i].from_agent) < StageIdx(message_queue[j].from_agent)
    /\ Returned_mas => mas_result[1].message_history = get_message_history(message_queue)

\* a stage whose predecessor failed received nothing
NothingAfterFailure ==
    \A k \in 2..Len(executed) : Failed(executed[k - 1]) => executed[k].received = <<>>

\* C31: in one run on a fresh bus, the search, analysis and database stages
\* each send exactly one message, to the stage that follows, when they
\* complete without failure, and none when they fail; the report stage
\* sends none; so the message history holds at most three messages, in
\* stage order, and a stage whose predecessor failed receives no message
C31_MessageProtocol ==
    /\ SendsOnSuccessOnly
    /\ HistoryInStageOrder
    /\ NothingAfterFailure

\* a run is over in which the analysis stage failed: the bus holds the
\* messages of the search and the database stage, and the database stage
\* received nothing
C31_Witness ==
    /\ pc = "finished"
    /\ Failed(executed[2]) /\ ~Failed(executed[1]) /\ ~Failed(executed[3])
    /\ Len(message_queue) = 2
    /\ message_queue[1].to_agent = "analysis_agent"
    /\ message_queue[2].to_agent = "report_agent"
    /\ executed[3].received = <<>>
    /\ executed[4].received # <<>>

====
